---- MODULE Spec2Model ----
(***************************************************************************)
(* The peer registry (HostMap) and the peer record (HostInfo) of           *)
(* hostmap.go: the two maps of the registry, the candidate-endpoint list   *)
(* of a peer with its selected endpoint, and the deferred-packet store     *)
(* that is flushed when a handshake completes.                             *)
(***************************************************************************)
EXTENDS Integers, Sequences, FiniteSets, TLC

\* ------------------------------------------------------------------ constants
PromoteEvery == 1000
MaxRemotes == 10
\* the literal cap of cachePacket
PacketStoreCap == 100

\* ------------------------------------------------------------------ bounds
\* overlay addresses 10.0.0.1 .. 10.0.0.MaxVpnIP are used as keys
MaxVpnIP == 2
\* session indexes 1 .. MaxIndex are used as keys
MaxIndex == 2
\* number of HostInfo records ever allocated by the registry
MaxPeers == 2
\* number of distinct transport addresses offered to one peer
MaxAddr == 12
\* number of transport addresses offered to the registry's AddRemote
MaxRegAddr == 1
\* number of TryPromoteBest calls that increment one peer's counter
MaxPromote == 2
\* largest message counter of a session when it is bound to a peer
MaxCounter == 3
\* number of cachePacket calls the data-path thread makes
MaxRacePackets == 3
\* number of threads calling the registry at once
MaxThreads == 2
\* number of RecvErrorExceeded calls made on one peer
MaxRecvCalls == 6

\* ------------------------------------------------------------------ addresses
Min(a, b) == IF a < b THEN a ELSE b
Max(a, b) == IF a > b THEN a ELSE b

\* ------------------------------------------------------------------ uint32
\* A uint32 v below 2^31 is held as v, one from 2^31 on as v - 2^32 (its bit
\* pattern read as a signed number), so that ++ wraps where the code's does.
MaxInt32 == 2147483647
Uint32Inc(c) == IF c = MaxInt32 THEN -MaxInt32 - 1 ELSE c + 1
\* v % m for the uint32 v that c holds: 2^32 % m is added for a c that holds v - 2^32
Uint32Mod(c, m) ==
    IF c >= 0 THEN c % m ELSE ((c % m) + ((((2 ^ 16) % m) * ((2 ^ 16) % m)) % m)) % m
RECURSIVE Uint32Add(_, _)
Uint32Add(c, n) == IF n = 0 THEN c ELSE Uint32Add(Uint32Inc(c), n - 1)

\* an IPv4 address is its four octets; a network is an address and a prefix length
IPv4(a, b, c, d) == <<a, b, c, d>>
IPNet(ip, bits) == [IP |-> ip, Bits |-> bits]

\* net.IPNet.Contains: the first Bits bits of ip equal those of the network
Contains(n, ip) ==
    \A k \in 1..4 :
        LET m == Min(8, Max(0, n.Bits - 8 * (k - 1)))
            s == 2 ^ (8 - m)
        IN  (ip[k] \div s) = (n.IP[k] \div s)

PrivateIP(ip) ==
    \/ Contains(IPNet(IPv4(10, 0, 0, 0), 8), ip)
    \/ Contains(IPNet(IPv4(172, 16, 0, 0), 12), ip)
    \/ Contains(IPNet(IPv4(192, 168, 0, 0), 16), ip)

\* a transport address (udpAddr); Equals compares the IP and the port
UdpAddr(ip, port) == [IP |-> ip, Port |-> port]
Equals(a, b) == a.IP = b.IP /\ a.Port = b.Port
udp2ip(a) == a.IP

\* the n-th transport address offered to a peer: private, public and
\* private-in-192.168/16 addresses in turn
AddrOf(n) ==
    CASE n % 3 = 1 -> UdpAddr(IPv4(10, 1, 1, n), 4242)
      [] n % 3 = 2 -> UdpAddr(IPv4(203, 0, 113, n), 4242)
      [] OTHER     -> UdpAddr(IPv4(192, 168, 1, n), 4242)
Addrs == {AddrOf(n) : n \in 1..MaxAddr}
AddrNo(a) == a.IP[4]

\* the preferred-range lists a registry may be configured with
PreferredRangeLists == {<<>>, <<IPNet(IPv4(192, 168, 0, 0), 16)>>}

\* ------------------------------------------------------------------ records
NoAddr == UdpAddr(IPv4(0, 0, 0, 0), 0)
\* the nil *HostInfoDest; a HostInfoDest is an allocated record (id) holding an address
NilDest == [id |-> 0, addr |-> NoAddr]
\* the nil *ConnectionState
NilCS == [messageCounter |-> 0, ready |-> FALSE, certState |-> "nil", nil |-> TRUE]

\* &HostInfo{}: the zero value of a peer record
NewHostInfo ==
    [remote |-> NilDest, Remotes |-> <<>>, promoteCounter |-> 0,
     ConnectionState |-> NilCS, HandshakeComplete |-> FALSE,
     packetStore |-> <<>>, remoteIndexId |-> 0, localIndexId |-> 0,
     hostId |-> 0, recvError |-> 0]

\* NewHostInfoDest: a record distinct from every record the peer still refers to
NewHostInfoDest(h, addr) ==
    LET used == {h.Remotes[k].id : k \in 1..Len(h.Remotes)} \cup {h.remote.id}
        id == CHOOSE n \in 1..(Cardinality(used) + 1) :
                  n \notin used /\ \A m \in 1..(n - 1) : m \in used
    IN  [id |-> id, addr |-> addr]

\* ------------------------------------------------------------------ HostInfo
setRemote(h, remote) == [h EXCEPT !.remote = remote]

\* the entries from position from on (1-based), as Remotes[from-1:] in Go
SliceFrom(s, from) == SubSeq(s, from, Len(s))

\* HostInfo.AddRemote without the search for an entry with the same address
HostInfoAddRemoteAlwaysAppends(h, r) ==
    LET trimmed == IF Len(h.Remotes) > MaxRemotes
                   THEN SliceFrom(h.Remotes, Len(h.Remotes) - MaxRemotes + 1)
                   ELSE h.Remotes
        rd == NewHostInfoDest(h, r)
    IN  [h |-> [h EXCEPT !.Remotes = Append(trimmed, rd)], dest |-> rd]

\* HostInfo.AddRemote: the updated peer and the returned record
HostInfoAddRemote(h, r) ==
    LET hits == {k \in 1..Len(h.Remotes) : Equals(h.Remotes[k].addr, r)}
    IN  IF hits # {}
        THEN [h |-> h, dest |-> h.Remotes[CHOOSE k \in hits : \A j \in hits : k <= j]]
        ELSE LET trimmed == IF Len(h.Remotes) > MaxRemotes
                            THEN SliceFrom(h.Remotes, Len(h.Remotes) - MaxRemotes + 1)
                            ELSE h.Remotes
                 rd == NewHostInfoDest(h, r)
             IN  [h |-> [h EXCEPT !.Remotes = Append(trimmed, rd)], dest |-> rd]

SetRemote(h, remote) ==
    LET a == HostInfoAddRemote(h, remote) IN setRemote(a.h, a.dest)

ClearRemotes(h) == [h EXCEPT !.remote = NilDest, !.Remotes = <<>>]

InAnyRange(ranges, ip) == \E k \in 1..Len(ranges) : Contains(ranges[k], ip)

\* the loop of getBestRemote from position k on, with the fallback found so far
RECURSIVE BestFrom(_, _, _, _)
BestFrom(remotes, preferredRanges, k, best) ==
    IF k > Len(remotes)
    THEN [best |-> best, preferred |-> FALSE]
    ELSE LET r == remotes[k]
             rIP == udp2ip(r.addr)
         IN  IF InAnyRange(preferredRanges, rIP)
             THEN [best |-> r, preferred |-> TRUE]
             ELSE BestFrom(remotes, preferredRanges, k + 1,
                           IF best = NilDest \/ ~PrivateIP(rIP) THEN r ELSE best)

\* getBestRemote whose fallback is never overwritten by a later non-private entry
RECURSIVE BestFromKeepsFirst(_, _, _, _)
BestFromKeepsFirst(remotes, preferredRanges, k, best) ==
    IF k > Len(remotes)
    THEN [best |-> best, preferred |-> FALSE]
    ELSE IF InAnyRange(preferredRanges, udp2ip(remotes[k].addr))
         THEN [best |-> remotes[k], preferred |-> TRUE]
         ELSE BestFromKeepsFirst(remotes, preferredRanges, k + 1,
                                 IF best = NilDest THEN remotes[k] ELSE best)

getBestRemoteKeepsFirst(h, preferredRanges) ==
    IF Len(h.Remotes) > 0
    THEN BestFromKeepsFirst(h.Remotes, preferredRanges, 1, NilDest)
    ELSE [best |-> NilDest, preferred |-> FALSE]

getBestRemote(h, preferredRanges) ==
    IF Len(h.Remotes) > 0
    THEN BestFrom(h.Remotes, preferredRanges, 1, NilDest)
    ELSE [best |-> NilDest, preferred |-> FALSE]

ForcePromoteBest(h, preferredRanges) ==
    LET b == getBestRemote(h, preferredRanges)
    IN  IF b.best # NilDest THEN setRemote(h, b.best) ELSE h

\* rotateRemote that stays where it is instead of starting over at index 0
rotateRemoteNoWrap(h) ==
    IF Len(h.Remotes) < 1 THEN h
    ELSE IF h.remote = NilDest THEN [h EXCEPT !.remote = h.Remotes[1]]
    ELSE LET hits == {x \in 1..(Len(h.Remotes) - 1) :
                          Equals(h.Remotes[x].addr, h.remote.addr)}
         IN  IF hits # {}
             THEN setRemote(h, h.Remotes[(CHOOSE x \in hits : \A y \in hits : x <= y) + 1])
             ELSE h

rotateRemote(h) ==
    IF Len(h.Remotes) < 1 THEN h
    ELSE IF h.remote = NilDest THEN [h EXCEPT !.remote = h.Remotes[1]]
    ELSE LET hits == {x \in 1..(Len(h.Remotes) - 1) :
                          Equals(h.Remotes[x].addr, h.remote.addr)}
         IN  IF hits # {}
             THEN setRemote(h, h.Remotes[(CHOOSE x \in hits : \A y \in hits : x <= y) + 1])
             ELSE setRemote(h, h.Remotes[1])

\* the AddRemote loop of TryPromoteBest over the lighthouse's answer
RECURSIVE AddAll(_, _)
AddAll(h, ips) ==
    IF ips = <<>> THEN h
    ELSE AddAll(HostInfoAddRemote(h, Head(ips)).h, Tail(ips))

\* TryPromoteBest that selects the better endpoint it has just probed
TryPromoteBestSwitches(h, preferredRanges, ips) ==
    IF h.remote = NilDest
    THEN [h |-> ForcePromoteBest(h, preferredRanges), queried |-> FALSE, sent |-> <<>>]
    ELSE LET h1 == [h EXCEPT !.promoteCounter = h.promoteCounter + 1]
         IN  IF h1.promoteCounter % PromoteEvery # 0
                \/ InAnyRange(preferredRanges, udp2ip(h1.remote.addr))
             THEN [h |-> h1, queried |-> FALSE, sent |-> <<>>]
             ELSE LET h2 == AddAll(h1, ips)
                      b == getBestRemote(h2, preferredRanges)
                  IN  IF b.preferred /\ ~Equals(b.best.addr, h2.remote.addr)
                      THEN [h |-> setRemote(h2, b.best), queried |-> TRUE,
                            sent |-> <<b.best.addr>>]
                      ELSE [h |-> h2, queried |-> TRUE, sent |-> <<>>]

\* TryPromoteBest that probes the best endpoint whether or not it is preferred
TryPromoteBestAnyBetter(h, preferredRanges, ips) ==
    IF h.remote = NilDest
    THEN [h |-> ForcePromoteBest(h, preferredRanges), queried |-> FALSE, sent |-> <<>>]
    ELSE LET h1 == [h EXCEPT !.promoteCounter = Uint32Inc(h.promoteCounter)]
         IN  IF Uint32Mod(h1.promoteCounter, PromoteEvery) # 0
                \/ InAnyRange(preferredRanges, udp2ip(h1.remote.addr))
             THEN [h |-> h1, queried |-> FALSE, sent |-> <<>>]
             ELSE LET h2 == AddAll(h1, ips)
                      b == getBestRemote(h2, preferredRanges)
                  IN  [h |-> h2, queried |-> TRUE,
                       sent |-> IF ~Equals(b.best.addr, h2.remote.addr)
                                THEN <<b.best.addr>> ELSE <<>>]

\* TryPromoteBest after i.promoteCounter++: on a counter that is a multiple of
\* PromoteEvery and a selected endpoint outside the preferred ranges, the list is
\* refreshed from the lighthouse cache and a better endpoint is sent a test packet
PromoteEveryNth(h1, preferredRanges, ips) ==
    IF Uint32Mod(h1.promoteCounter, PromoteEvery) # 0
       \/ InAnyRange(preferredRanges, udp2ip(h1.remote.addr))
    THEN [h |-> h1, queried |-> FALSE, sent |-> <<>>]
    ELSE LET h2 == AddAll(h1, ips)
             b == getBestRemote(h2, preferredRanges)
         IN  [h |-> h2, queried |-> TRUE,
              sent |-> IF b.preferred /\ ~Equals(b.best.addr, h2.remote.addr)
                       THEN <<b.best.addr>> ELSE <<>>]

\* HostInfo.TryPromoteBest: the updated peer, whether the lighthouse cache was
\* queried, and the test packets handed to ifce.send (their destinations)
TryPromoteBest(h, preferredRanges, ips) ==
    IF h.remote = NilDest
    THEN [h |-> ForcePromoteBest(h, preferredRanges), queried |-> FALSE, sent |-> <<>>]
    ELSE PromoteEveryNth([h EXCEPT !.promoteCounter = Uint32Inc(h.promoteCounter)],
                         preferredRanges, ips)

\* a packet deferred during the handshake (cachedPacket): its callback is the
\* send path the flush re-enters, its payload a copy of the caller's bytes
CachedPacket(t, st, packet) == [messageType |-> t, messageSubType |-> st, packet |-> packet]

\* cachePacket with the cap tested after the append instead of before it
cachePacketOffByOne(h, t, st, packet) ==
    IF Len(h.packetStore) <= PacketStoreCap
    THEN [h |-> [h EXCEPT !.packetStore = Append(@, CachedPacket(t, st, packet))],
          stored |-> TRUE]
    ELSE [h |-> h, stored |-> FALSE]

\* HostInfo.cachePacket: the updated peer and the "stored" field of its log line
cachePacket(h, t, st, packet) ==
    IF Len(h.packetStore) < PacketStoreCap
    THEN [h |-> [h EXCEPT !.packetStore = Append(@, CachedPacket(t, st, packet))],
          stored |-> TRUE]
    ELSE [h |-> h, stored |-> FALSE]

\* the callback loop run from the newest packet to the oldest
FlushBackwards(store, counter, inc) ==
    [counter |-> counter + inc * Len(store),
     calls |-> [k \in 1..Len(store) |->
                   [cp |-> store[Len(store) - k + 1], counter |-> counter + inc * (k - 1)]]]

\* the callback loop of handshakeComplete: the k-th callback gets the k-th stored
\* packet and is logged with the session's message counter at the time it runs;
\* the send path each callback re-enters consumes inc counter values
Flush(store, counter, inc) ==
    [counter |-> counter + inc * Len(store),
     calls |-> [k \in 1..Len(store) |->
                   [cp |-> store[k], counter |-> counter + inc * (k - 1)]]]

\* handshakeComplete without the reset of the packet store after the flush
handshakeCompleteKeepsStore(h, inc) ==
    LET f == Flush(h.packetStore, 2, inc)
    IN  [h |-> [h EXCEPT !.HandshakeComplete = TRUE,
                         !.ConnectionState.messageCounter = f.counter,
                         !.ConnectionState.ready = TRUE,
                         !.ConnectionState.certState = "nil"],
         calls |-> f.calls]

\* HostInfo.handshakeComplete on a peer with a bound session: the updated peer
\* and the callbacks it invoked, in order
handshakeComplete(h, inc) ==
    LET f == Flush(h.packetStore, 2, inc)
    IN  [h |-> [h EXCEPT !.HandshakeComplete = TRUE,
                         !.packetStore = <<>>,
                         !.ConnectionState.messageCounter = f.counter,
                         !.ConnectionState.ready = TRUE,
                         !.ConnectionState.certState = "nil"],
         calls |-> f.calls]

\* RecvErrorExceeded with the threshold tested one call late
RecvErrorExceededLate(h) ==
    IF h.recvError <= 3
    THEN [h |-> [h EXCEPT !.recvError = @ + 1], exceeded |-> FALSE]
    ELSE [h |-> h, exceeded |-> TRUE]

\* HostInfo.RecvErrorExceeded: the updated peer and the returned flag
RecvErrorExceeded(h) ==
    IF h.recvError < 3
    THEN [h |-> [h EXCEPT !.recvError = @ + 1], exceeded |-> FALSE]
    ELSE [h |-> h, exceeded |-> TRUE]

BindConnectionState(h, cs) == [h EXCEPT !.ConnectionState = cs]
ClearConnectionState(h) == [h EXCEPT !.ConnectionState = NilCS]

\* ------------------------------------------------------------------ HostMap
\* 10.0.0.0 as a uint32; the overlay addresses used as keys follow it
VpnBase == 10 * 16777216
VpnIPs == {VpnBase + k : k \in 1..MaxVpnIP}
\* int2ip: the four octets of an address held as a uint32
int2ip(n) == IPv4(n \div 16777216, (n \div 65536) % 256, (n \div 256) % 256, n % 256)
\* the overlay network the registry is configured with
VpnCIDR == IPNet(IPv4(10, 0, 0, 0), 24)
IndexIds == 1..MaxIndex
RegAddrs == {AddrOf(n) : n \in 1..MaxRegAddr}

\* a session handed to AddIndex by the handshake engine, or nil
NewCS == [messageCounter |-> 0, ready |-> FALSE, certState |-> "cert", nil |-> FALSE]
Sessions == {NilCS, NewCS}

\* Go maps as functions; a *HostInfo is a position of the heap, 0 is nil
EmptyMap == [k \in {} |-> 0]
Put(m, key, v) == [k \in (DOMAIN m) \cup {key} |-> IF k = key THEN v ELSE m[k]]
Delete(m, key) == [k \in (DOMAIN m) \ {key} |-> m[k]]

NewHostMap(vpnCIDR, preferredRanges) ==
    [Indexes |-> EmptyMap, Hosts |-> EmptyMap,
     preferredRanges |-> preferredRanges, vpnCIDR |-> vpnCIDR, defaultRoute |-> 0]

\* every registry operation maps the registry m and the heap hp of peer records
\* to the new registry, the new heap and the returned *HostInfo and error
Result(m, hp, h, err) == [hm |-> m, heap |-> hp, h |-> h, err |-> err]

Add(m, hp, ip, hostinfo) ==
    Result([m EXCEPT !.Hosts = Put(@, ip, hostinfo)], hp, 0, FALSE)

AddVpnIP(m, hp, vpnIP) ==
    IF vpnIP \notin DOMAIN m.Hosts
    THEN LET h == [NewHostInfo EXCEPT !.hostId = vpnIP]
         IN  Result([m EXCEPT !.Hosts = Put(@, vpnIP, Len(hp) + 1)],
                    Append(hp, h), Len(hp) + 1, FALSE)
    ELSE Result(m, hp, m.Hosts[vpnIP], FALSE)

\* DeleteVpnIP that also drops a default route through the removed address
DeleteVpnIPDropsRoute(m, hp, vpnIP) ==
    Result([m EXCEPT !.Hosts = Delete(@, vpnIP),
                     !.defaultRoute = IF @ = vpnIP THEN 0 ELSE @],
           hp, 0, FALSE)

DeleteVpnIP(m, hp, vpnIP) ==
    Result([m EXCEPT !.Hosts = Delete(@, vpnIP)], hp, 0, FALSE)

\* AddIndex without the test for an index that is already bound
AddIndexOverwrites(m, hp, index, ci) ==
    LET h == [NewHostInfo EXCEPT !.ConnectionState = ci, !.localIndexId = index]
    IN  Result([m EXCEPT !.Indexes = Put(@, index, Len(hp) + 1)],
               Append(hp, h), Len(hp) + 1, FALSE)

AddIndex(m, hp, index, ci) ==
    IF index \notin DOMAIN m.Indexes
    THEN LET h == [NewHostInfo EXCEPT !.ConnectionState = ci, !.localIndexId = index]
         IN  Result([m EXCEPT !.Indexes = Put(@, index, Len(hp) + 1)],
                    Append(hp, h), Len(hp) + 1, FALSE)
    ELSE Result(m, hp, 0, TRUE)

AddIndexHostInfo(m, hp, index, h) ==
    Result([m EXCEPT !.Indexes = Put(@, index, h)],
           [hp EXCEPT ![h].localIndexId = index], 0, FALSE)

AddVpnIPHostInfo(m, hp, vpnIP, h) ==
    Result([m EXCEPT !.Hosts = Put(@, vpnIP, h)],
           [hp EXCEPT ![h].hostId = vpnIP], 0, FALSE)

DeleteIndex(m, hp, index) ==
    Result([m EXCEPT !.Indexes = Delete(@, index)], hp, 0, FALSE)

\* HostMap.AddRemote without the ForcePromoteBest at its end
HostMapAddRemoteNoPromote(m, hp, vpnIp, remote) ==
    IF vpnIp \in DOMAIN m.Hosts
    THEN LET i == m.Hosts[vpnIp]
         IN  Result(m, [hp EXCEPT ![i] = HostInfoAddRemote(hp[i], remote).h], i, FALSE)
    ELSE LET rd == NewHostInfoDest(NewHostInfo, remote)
             h0 == [NewHostInfo EXCEPT !.Remotes = <<rd>>, !.hostId = vpnIp]
         IN  Result([m EXCEPT !.Hosts = Put(@, vpnIp, Len(hp) + 1)],
                    Append(hp, setRemote(h0, h0.Remotes[1])), Len(hp) + 1, FALSE)

HostMapAddRemote(m, hp, vpnIp, remote) ==
    IF vpnIp \in DOMAIN m.Hosts
    THEN LET i == m.Hosts[vpnIp]
             h1 == HostInfoAddRemote(hp[i], remote).h
         IN  Result(m, [hp EXCEPT ![i] = ForcePromoteBest(h1, m.preferredRanges)], i, FALSE)
    ELSE LET rd == NewHostInfoDest(NewHostInfo, remote)
             h0 == [NewHostInfo EXCEPT !.Remotes = <<rd>>, !.hostId = vpnIp]
             h1 == setRemote(h0, h0.Remotes[1])
         IN  Result([m EXCEPT !.Hosts = Put(@, vpnIp, Len(hp) + 1)],
                    Append(hp, ForcePromoteBest(h1, m.preferredRanges)),
                    Len(hp) + 1, FALSE)

\* a Go map read: the zero value (nil) for a key that is not bound
Lookup(map, key) == IF key \in DOMAIN map THEN map[key] ELSE 0

QueryIndex(m, hp, index) ==
    IF index \in DOMAIN m.Indexes
    THEN Result(m, hp, m.Indexes[index], FALSE)
    ELSE Result(m, hp, 0, TRUE)

\* the peers a map binds that have a session and the remote index asked for
ReverseMatches(map, hp, index) ==
    {map[k] : k \in {j \in DOMAIN map : /\ ~hp[map[j]].ConnectionState.nil
                                        /\ hp[map[j]].remoteIndexId = index}}

\* QueryReverseIndex that does not test the session for nil
QueryReverseIndexAnySession(m, hp, index) ==
    LET any(map) == {map[k] : k \in {j \in DOMAIN map : hp[map[j]].remoteIndexId = index}}
    IN  IF any(m.Indexes) # {}
        THEN {Result(m, hp, h, FALSE) : h \in any(m.Indexes)}
        ELSE IF any(m.Hosts) # {}
        THEN {Result(m, hp, h, FALSE) : h \in any(m.Hosts)}
        ELSE {Result(m, hp, 0, TRUE)}

\* QueryReverseIndex ranges over Indexes, then over Hosts, and returns the first
\* match; a Go map is ranged over in any order, so every match of the first map
\* that has one is a possible result
QueryReverseIndex(m, hp, index) ==
    IF ReverseMatches(m.Indexes, hp, index) # {}
    THEN {Result(m, hp, h, FALSE) : h \in ReverseMatches(m.Indexes, hp, index)}
    ELSE IF ReverseMatches(m.Hosts, hp, index) # {}
    THEN {Result(m, hp, h, FALSE) : h \in ReverseMatches(m.Hosts, hp, index)}
    ELSE {Result(m, hp, 0, TRUE)}

SetDefaultRoute(m, hp, ip) ==
    Result([m EXCEPT !.defaultRoute = ip], hp, 0, FALSE)

\* queryVpnIP returning the default route's entry without testing it for nil
queryVpnIPAnyRoute(m, hp, vpnIp, promote, ips) ==
    IF ~Contains(m.vpnCIDR, int2ip(vpnIp)) /\ m.defaultRoute # 0
    THEN [hm |-> m, heap |-> hp, h |-> Lookup(m.Hosts, m.defaultRoute), err |-> FALSE,
          probe |-> [queried |-> FALSE, sent |-> <<>>]]
    ELSE IF vpnIp \in DOMAIN m.Hosts
         THEN [hm |-> m, heap |-> hp, h |-> m.Hosts[vpnIp], err |-> FALSE,
               probe |-> [queried |-> FALSE, sent |-> <<>>]]
         ELSE [hm |-> m, heap |-> hp, h |-> 0, err |-> TRUE,
               probe |-> [queried |-> FALSE, sent |-> <<>>]]

\* queryVpnIP: promote says whether an interface was passed (PromoteBestQueryVpnIP),
\* ips is what the lighthouse cache answers if TryPromoteBest asks it. The result
\* also tells what TryPromoteBest did (probe).
queryVpnIP(m, hp, vpnIp, promote, ips) ==
    IF /\ ~Contains(m.vpnCIDR, int2ip(vpnIp))
       /\ m.defaultRoute # 0
       /\ Lookup(m.Hosts, m.defaultRoute) # 0
    THEN [hm |-> m, heap |-> hp, h |-> Lookup(m.Hosts, m.defaultRoute), err |-> FALSE,
          probe |-> [queried |-> FALSE, sent |-> <<>>]]
    ELSE IF vpnIp \in DOMAIN m.Hosts
         THEN LET h == m.Hosts[vpnIp]
                  t == TryPromoteBest(hp[h], m.preferredRanges, ips)
              IN  IF promote
                  THEN [hm |-> m, heap |-> [hp EXCEPT ![h] = t.h], h |-> h, err |-> FALSE,
                        probe |-> [queried |-> t.queried, sent |-> t.sent]]
                  ELSE [hm |-> m, heap |-> hp, h |-> h, err |-> FALSE,
                        probe |-> [queried |-> FALSE, sent |-> <<>>]]
         ELSE [hm |-> m, heap |-> hp, h |-> 0, err |-> TRUE,
               probe |-> [queried |-> FALSE, sent |-> <<>>]]

QueryVpnIP(m, hp, vpnIp) == queryVpnIP(m, hp, vpnIp, FALSE, <<>>)
PromoteBestQueryVpnIP(m, hp, vpnIp, ips) == queryVpnIP(m, hp, vpnIp, TRUE, ips)

\* ------------------------------------------------------------------ state
VARIABLES
    hm,      \* the registry: its two maps and its configuration
    heap,    \* the HostInfo records the registry's maps and its callers point to
    ret,     \* what the last registry operation returned
    hi,      \* one peer record, operated on directly
    adds,    \* the addresses AddRemote appended to hi since its list was last empty
    onlyAdd, \* whether all of them were appended by direct calls of HostInfo.AddRemote
    probe,   \* what the last TryPromoteBest on hi did: cache queried, packets sent
    calls,   \* the callbacks the last operation on hi invoked, in order
    stored,  \* whether the last cachePacket on hi stored its packet
    exceeded, \* what the RecvErrorExceeded calls on hi returned so far, in order
    counted, \* a peer's promoteCounter when the calls began, and the promoting lookups that found it since
    pkt,     \* the last call of newPacket: the bytes, the direction, the packet filled in, the error
    dp,      \* a data-path thread inside cachePacket on hi: position and locals
    hs,      \* a handshake thread inside handshakeComplete on hi: position and locals
    queueLock, \* the holder of the session's queueLock, if any
    delivered, \* the packets handed to their callbacks so far, in order
    th,      \* the threads calling the registry: position, argument, locals, result
    rw,      \* the registry's RWMutex: readers, writer, writers waiting
    op       \* the operation that ran last

regVars == <<hm, heap, ret>>
epVars == <<adds, onlyAdd, probe>>
pktVars == <<calls, stored>>
errVars == <<exceeded>>
cntVars == <<counted>>
fwVars == <<pkt>>
raceVars == <<dp, hs, queueLock, delivered>>
concVars == <<th, rw>>
vars == <<hm, heap, ret, hi, adds, onlyAdd, probe, calls, stored, exceeded, counted, pkt,
          dp, hs, queueLock, delivered, th, rw, op>>

NoProbe == [queried |-> FALSE, sent |-> <<>>]
RegIdle == hm = NewHostMap(VpnCIDR, <<>>) /\ heap = <<>> /\ ret = [h |-> 0, err |-> FALSE]
EndpointIdle == adds = <<>> /\ onlyAdd = TRUE /\ probe = NoProbe
PacketIdle == calls = <<>> /\ stored = FALSE
ErrIdle == exceeded = <<>>
CountIdle == counted = [start |-> 0, n |-> 0]
\* no packet parsed yet
NoPacket == [Protocol |-> 0, LocalIP |-> <<>>, RemoteIP |-> <<>>, LocalPort |-> 0, RemotePort |-> 0]
NoCall ==
    [data |-> <<>>, incoming |-> FALSE,
     hdr |-> [Version |-> 0, Src |-> <<>>, Dst |-> <<>>, Options |-> <<>>, Protocol |-> 0,
              SrcPort |-> 0, DstPort |-> 0],
     fp |-> NoPacket, err |-> "none"]
FwIdle == pkt = NoCall
DpIdle == [pc |-> "idle", n |-> 0, packet |-> 0, slice |-> <<>>, kept |-> {}]
HsIdle == [pc |-> "idle", range |-> <<>>, k |-> 0]
RaceIdle == dp = DpIdle /\ hs = HsIdle /\ queueLock = "free" /\ delivered = <<>>
Threads == 1..MaxThreads
ThreadIdle == [pc |-> "idle", vpnIP |-> 0, h |-> 0, ret |-> 0]
RWFree == [readers |-> {}, writer |-> 0, waiting |-> {}]
ConcIdle == th = [t \in Threads |-> ThreadIdle] /\ rw = RWFree

NoRet == [h |-> 0, err |-> FALSE]
Peers == 1..Len(heap)
\* a registry operation that allocates a peer record needs room on the heap
Room == Len(heap) < MaxPeers

Return(r, name) ==
    /\ hm' = r.hm
    /\ heap' = r.heap
    /\ ret' = [h |-> r.h, err |-> r.err]
    /\ op' = name
    /\ UNCHANGED <<hi, epVars, pktVars, errVars, cntVars, fwVars, raceVars, concVars>>

\* ------------------------------------------------------------------ registry operations
CallAdd ==
    \E ip \in VpnIPs, p \in Peers : Return(Add(hm, heap, ip, p), "Add")

CallAddVpnIP ==
    \E ip \in VpnIPs :
        /\ ip \in DOMAIN hm.Hosts \/ Room
        /\ Return(AddVpnIP(hm, heap, ip), "AddVpnIP")

CallDeleteVpnIP ==
    \E ip \in VpnIPs : Return(DeleteVpnIP(hm, heap, ip), "DeleteVpnIP")

CallAddIndex ==
    \E index \in IndexIds, ci \in Sessions :
        /\ index \in DOMAIN hm.Indexes \/ Room
        /\ Return(AddIndex(hm, heap, index, ci), "AddIndex")

CallAddIndexHostInfo ==
    \E index \in IndexIds, p \in Peers :
        Return(AddIndexHostInfo(hm, heap, index, p), "AddIndexHostInfo")

CallAddVpnIPHostInfo ==
    \E ip \in VpnIPs, p \in Peers :
        Return(AddVpnIPHostInfo(hm, heap, ip, p), "AddVpnIPHostInfo")

CallDeleteIndex ==
    \E index \in IndexIds : Return(DeleteIndex(hm, heap, index), "DeleteIndex")

CallAddRemote ==
    \E ip \in VpnIPs, remote \in RegAddrs :
        /\ ip \in DOMAIN hm.Hosts \/ Room
        /\ Return(HostMapAddRemote(hm, heap, ip, remote), "AddRemote")

\* the registry is configured with one preferred range
RegPreferredRanges == <<IPNet(IPv4(192, 168, 0, 0), 16)>>

Init ==
    /\ hm = NewHostMap(VpnCIDR, RegPreferredRanges)
    /\ heap = <<>>
    /\ ret = NoRet
    /\ op = "init"
    /\ hi = NewHostInfo
    /\ EndpointIdle
    /\ PacketIdle
    /\ ErrIdle
    /\ CountIdle
    /\ FwIdle
    /\ RaceIdle
    /\ ConcIdle

Next ==
    \/ CallAdd
    \/ CallAddVpnIP
    \/ CallDeleteVpnIP
    \/ CallAddIndex
    \/ CallAddIndexHostInfo
    \/ CallAddVpnIPHostInfo
    \/ CallDeleteIndex
    \/ CallAddRemote

Spec == Init /\ [][Next]_vars

\* ------------------------------------------------------------------ claims: registry
\* C1: every key v of the overlay-address map maps to a peer whose
\* overlay address (hostId) equals v.
C1_HostsKeyMatchesHostId ==
    \A v \in DOMAIN hm.Hosts : heap[hm.Hosts[v]].hostId = v

\* C2: every key i of the session-index map maps to a peer whose
\* local session index (localIndexId) equals i.
C2_IndexesKeyMatchesLocalIndexId ==
    \A i \in DOMAIN hm.Indexes : heap[hm.Indexes[i]].localIndexId = i

\* ------------------------------------------------------------------ peer operations
\* The transport addresses offered to the peer: those it knows (its list and its
\* selected endpoint) and the first address it has not seen yet. Addresses are
\* numbered in the order the peer first sees them.
Known(h) ==
    {h.Remotes[k].addr : k \in 1..Len(h.Remotes)}
        \cup (IF h.remote = NilDest THEN {} ELSE {h.remote.addr})
Offered(h) ==
    LET next == 1 + Max(0, CHOOSE n \in {0} \cup {AddrNo(a) : a \in Known(h)} :
                               \A a \in Known(h) : AddrNo(a) <= n)
    IN  Known(h) \cup (IF next <= MaxAddr THEN {AddrOf(next)} ELSE {})

\* the addresses of ips, in order, for which AddRemote appends a record to h
RECURSIVE Appended(_, _)
Appended(h, ips) ==
    IF ips = <<>> THEN <<>>
    ELSE LET a == HostInfoAddRemote(h, Head(ips))
         IN  (IF Len(a.h.Remotes) > 0 /\ a.h.Remotes # h.Remotes THEN <<Head(ips)>> ELSE <<>>)
                 \o Appended(a.h, Tail(ips))

\* the answers of the lighthouse cache: nothing, one offered address, or a known
\* address followed by the unseen one
CacheAnswers(h) ==
    {<<>>} \cup {<<a>> : a \in Offered(h)}
        \cup {<<a, b>> : a \in Known(h), b \in Offered(h) \ Known(h)}

\* the counter values at which TryPromoteBest is called: the first calls on a
\* fresh peer and the calls around the PromoteEvery-th
PromoteStarts == {0, PromoteEvery - 1}
MayPromote(h) ==
    \/ h.remote = NilDest
    \/ \E s \in PromoteStarts : s <= h.promoteCounter /\ h.promoteCounter < s + MaxPromote

PeerDone(h, appended, p, name) ==
    /\ hi' = h
    /\ adds' = IF h.Remotes = <<>> THEN <<>> ELSE adds \o appended
    /\ onlyAdd' = IF h.Remotes = <<>> THEN TRUE
                  ELSE onlyAdd /\ (appended = <<>> \/ name = "HostInfo.AddRemote")
    /\ probe' = p
    /\ op' = name
    /\ UNCHANGED <<regVars, pktVars, errVars, cntVars, fwVars, raceVars, concVars>>

CallHostInfoAddRemote ==
    \E r \in Offered(hi) :
        PeerDone(HostInfoAddRemote(hi, r).h, Appended(hi, <<r>>), probe, "HostInfo.AddRemote")

CallSetRemote ==
    \E r \in Offered(hi) :
        PeerDone(SetRemote(hi, r), Appended(hi, <<r>>), probe, "SetRemote")

CallRotateRemote ==
    PeerDone(rotateRemote(hi), <<>>, probe, "rotateRemote")

CallForcePromoteBest ==
    \E pr \in PreferredRangeLists :
        PeerDone(ForcePromoteBest(hi, pr), <<>>, probe, "ForcePromoteBest")

CallTryPromoteBest ==
    /\ MayPromote(hi)
    /\ \E pr \in PreferredRangeLists :
         \* the lighthouse cache answers only when it is asked
         \E ips \in IF TryPromoteBest(hi, pr, <<>>).queried THEN CacheAnswers(hi) ELSE {<<>>} :
           LET t == TryPromoteBest(hi, pr, ips)
           IN  PeerDone(t.h, IF t.queried THEN Appended(hi, ips) ELSE <<>>,
                        [queried |-> t.queried, sent |-> t.sent], "TryPromoteBest")

CallClearRemotes ==
    PeerDone(ClearRemotes(hi), <<>>, probe, "ClearRemotes")

InitPeer ==
    /\ \E c \in PromoteStarts : hi = [NewHostInfo EXCEPT !.promoteCounter = c]
    /\ adds = <<>>
    /\ onlyAdd = TRUE
    /\ probe = NoProbe
    /\ op = "init"
    /\ RegIdle
    /\ PacketIdle
    /\ ErrIdle
    /\ CountIdle
    /\ FwIdle
    /\ RaceIdle
    /\ ConcIdle

NextPeer ==
    \/ CallHostInfoAddRemote
    \/ CallSetRemote
    \/ CallRotateRemote
    \/ CallForcePromoteBest
    \/ CallTryPromoteBest
    \/ CallClearRemotes

SpecPeer == InitPeer /\ [][NextPeer]_vars

\* ------------------------------------------------------------------ claims: endpoints
RemoteAddrs(h) == [k \in 1..Len(h.Remotes) |-> h.Remotes[k].addr]
Distinct(s) == \A j, k \in 1..Len(s) : j # k => s[j] # s[k]
LastN(s, n) == SubSeq(s, Len(s) - n + 1, Len(s))

\* C3: the selected endpoint (remote) is unset or is a record currently present
\* in the peer's endpoint list.
C3_RemoteIsInRemotes ==
    hi.remote = NilDest \/ \E k \in 1..Len(hi.Remotes) : hi.Remotes[k] = hi.remote

\* C4: the endpoint list never holds more than MaxRemotes entries.
C4_RemotesAtMostMaxRemotes ==
    Len(hi.Remotes) <= MaxRemotes

\* C5: after more than MaxRemotes pairwise distinct addresses were added to an
\* empty peer by AddRemote, the list is exactly the last MaxRemotes of them, in
\* insertion order.
C5_KeepsLastMaxRemotes ==
    (onlyAdd /\ Len(adds) > MaxRemotes /\ Distinct(adds))
        => RemoteAddrs(hi) = LastN(adds, MaxRemotes)

\* what the claims say getBestRemote returns for a list and preferred ranges:
\* the first entry in a preferred range; else the last entry that is not
\* private; else the first entry; else nothing
ExpectedBest(remotes, preferredRanges) ==
    LET n == Len(remotes)
        prefs == {k \in 1..n : InAnyRange(preferredRanges, udp2ip(remotes[k].addr))}
        pubs == {k \in 1..n : ~PrivateIP(udp2ip(remotes[k].addr))}
    IN  IF prefs # {}
        THEN [best |-> remotes[CHOOSE k \in prefs : \A j \in prefs : k <= j], preferred |-> TRUE]
        ELSE IF pubs # {}
        THEN [best |-> remotes[CHOOSE k \in pubs : \A j \in pubs : k >= j], preferred |-> FALSE]
        ELSE IF n > 0
        THEN [best |-> remotes[1], preferred |-> FALSE]
        ELSE [best |-> NilDest, preferred |-> FALSE]

\* C16: for every list and every list of preferred ranges, getBestRemote
\* returns the first entry in a preferred range, with true; otherwise the last
\* entry that is not private, with false; otherwise the first entry, with
\* false; otherwise nothing, with false. It returns an entry whenever the list
\* has one.
C16_BestRemote ==
    \A pr \in PreferredRangeLists :
        /\ getBestRemote(hi, pr) = ExpectedBest(hi.Remotes, pr)
        /\ Len(hi.Remotes) >= 1 => getBestRemote(hi, pr).best # NilDest

\* ForcePromoteBest selected a preferred entry that stands behind a public one
C16_Witness ==
    /\ op = "ForcePromoteBest"
    /\ Len(hi.Remotes) >= 3
    /\ hi.remote = hi.Remotes[3]
    /\ InAnyRange(RegPreferredRanges, udp2ip(hi.Remotes[3].addr))
    /\ ~PrivateIP(udp2ip(hi.Remotes[2].addr))

\* the peer after n calls of rotateRemote
RECURSIVE Rotations(_, _)
Rotations(h, n) == IF n = 0 THEN h ELSE Rotations(rotateRemote(h), n - 1)

Entries(h) == {h.Remotes[k] : k \in 1..Len(h.Remotes)}
\* the positions of the list that hold the address of the selected endpoint
Positions(h) == {k \in 1..Len(h.Remotes) : Equals(h.Remotes[k].addr, h.remote.addr)}
\* within len calls every entry is selected; a selected endpoint that is the
\* last entry, or is not found in the list, is followed by index 0; an empty
\* list changes nothing
RotateVisitsAndWraps(h) ==
    LET len == Len(h.Remotes)
    IN  /\ len >= 1 => {Rotations(h, k).remote : k \in 1..len} = Entries(h)
        /\ (len >= 1 /\ h.remote # NilDest /\ Positions(h) \subseteq {len})
              => rotateRemote(h).remote = h.Remotes[1]
        /\ len = 0 => rotateRemote(h) = h

\* C17 as stated: rotateRemote is a round-robin over the list: from any state
\* with len >= 1 entries, repeated calls select every entry within len calls
\* and the endpoint selected at the start is selected again by call len+1; from
\* the last entry (or an entry not found) it wraps to index 0; on an empty list
\* it changes nothing.
C17_RotateReturnsOnCallLenPlusOne ==
    /\ RotateVisitsAndWraps(hi)
    /\ hi.remote \in Entries(hi)
          => Rotations(hi, Len(hi.Remotes) + 1).remote = hi.remote

\* C17 amended: as above, but the endpoint selected at the start (if its
\* address is in the list) is selected again by call len, and call len+1
\* selects what call 1 selected.
C17_RotateRoundRobin ==
    /\ RotateVisitsAndWraps(hi)
    /\ (hi.remote # NilDest /\ Positions(hi) # {})
          => Equals(Rotations(hi, Len(hi.Remotes)).remote.addr, hi.remote.addr)
    /\ Len(hi.Remotes) >= 1
          => Rotations(hi, Len(hi.Remotes) + 1).remote = Rotations(hi, 1).remote

\* rotateRemote selected index 0 of a list of three or more
C17_Witness ==
    /\ op = "rotateRemote"
    /\ Len(hi.Remotes) >= 3
    /\ hi.remote = hi.Remotes[1]

\* C18: AddRemote with an address that is already in the list leaves the
\* list and the selected endpoint as they are and returns the record the first
\* call returned.
C18_AddRemoteIdempotent ==
    /\ \A a \in Offered(hi) :
          LET first == HostInfoAddRemote(hi, a)
              again == HostInfoAddRemote(first.h, a)
          IN  again.h = first.h /\ again.dest = first.dest
    /\ \A k \in 1..Len(hi.Remotes) :
          HostInfoAddRemote(hi, hi.Remotes[k].addr) = [h |-> hi, dest |-> hi.Remotes[k]]

\* AddRemote ran on a peer that has a selected endpoint and a list to search
C18_Witness ==
    /\ op = "HostInfo.AddRemote"
    /\ Len(hi.Remotes) >= 2
    /\ hi.remote # NilDest

\* what TryPromoteBest selects on h: at the peer's own counter, and at the
\* counter before a multiple of PromoteEvery with every answer of the lighthouse
SelectedByTryPromote(h) ==
    {TryPromoteBest(h, pr, <<>>).h.remote : pr \in PreferredRangeLists}
        \cup {TryPromoteBest([h EXCEPT !.promoteCounter = PromoteEvery - 1], pr, ips).h.remote :
                  pr \in PreferredRangeLists, ips \in CacheAnswers(h)}

\* C20 as stated: TryPromoteBest never changes the selected endpoint, whatever
\* the counter, the list and the lighthouse's answer.
C20_TryPromoteNeverSwitches ==
    SelectedByTryPromote(hi) = {hi.remote}

\* C20 amended: TryPromoteBest on a peer that has a selected endpoint never
\* changes it, whatever the counter, the list and the lighthouse's answer, also
\* when it sends a test packet to a better one; and the last TryPromoteBest
\* that sent a test packet left another endpoint selected.
C20_TryPromoteKeepsSelected ==
    /\ hi.remote # NilDest => SelectedByTryPromote(hi) = {hi.remote}
    /\ (op = "TryPromoteBest" /\ probe.sent # <<>>)
          => (hi.remote # NilDest /\ ~Equals(hi.remote.addr, probe.sent[1]))

\* TryPromoteBest sent a test packet to a preferred endpoint and kept the old one
C20_Witness ==
    /\ op = "TryPromoteBest"
    /\ probe.sent # <<>>
    /\ hi.remote # NilDest
    /\ ~Equals(hi.remote.addr, probe.sent[1])

\* the call increments the counter to a multiple of PromoteEvery while the
\* selected endpoint is outside the preferred ranges
Due(h, preferredRanges) ==
    /\ h.remote # NilDest
    /\ Uint32Mod(Uint32Inc(h.promoteCounter), PromoteEvery) = 0
    /\ ~InAnyRange(preferredRanges, udp2ip(h.remote.addr))
\* the best endpoint of the list refreshed with the lighthouse's answer
RefreshedBest(h, preferredRanges, ips) == ExpectedBest(AddAll(h, ips).Remotes, preferredRanges)
Better(h, preferredRanges, ips) ==
    /\ RefreshedBest(h, preferredRanges, ips).preferred
    /\ ~Equals(RefreshedBest(h, preferredRanges, ips).best.addr, h.remote.addr)
\* what the lighthouse cache may answer to a call on h: it is asked only on a due call
AnswersTo(h, preferredRanges) == IF Due(h, preferredRanges) THEN CacheAnswers(h) ELSE {<<>>}

\* C23 as stated: TryPromoteBest sends a test packet only on a due call whose
\* refreshed best endpoint is preferred and differs from the selected one, and
\* sends it to that endpoint; on every other call it sends nothing and does not
\* query the lighthouse cache.
C23_ProbeOnlyWhenDue ==
    \A pr \in PreferredRangeLists :
        \A ips \in AnswersTo(hi, pr) :
            LET t == TryPromoteBest(hi, pr, ips)
            IN  IF Due(hi, pr) /\ Better(hi, pr, ips)
                THEN t.sent \in {<<>>, <<RefreshedBest(hi, pr, ips).best.addr>>}
                ELSE t.sent = <<>> /\ ~t.queried

\* C23 amended: TryPromoteBest sends a test packet only on a due call whose
\* refreshed best endpoint is preferred and differs from the selected one, and
\* sends it to that endpoint; on every other call it sends nothing. It queries
\* the lighthouse cache on the due calls and on no other. The last call made
\* queried and sent accordingly.
C23_ProbeAndQueryWhenDue ==
    /\ \A pr \in PreferredRangeLists :
          \A ips \in AnswersTo(hi, pr) :
              LET t == TryPromoteBest(hi, pr, ips)
              IN  /\ t.queried <=> Due(hi, pr)
                  /\ IF Due(hi, pr) /\ Better(hi, pr, ips)
                     THEN t.sent = <<RefreshedBest(hi, pr, ips).best.addr>>
                     ELSE t.sent = <<>>
    /\ (op = "TryPromoteBest" /\ probe.queried)
          => Uint32Mod(hi.promoteCounter, PromoteEvery) = 0
    /\ (op = "TryPromoteBest" /\ probe.sent # <<>>)
          => /\ probe.queried
             /\ \E k \in 1..Len(hi.Remotes) : Equals(hi.Remotes[k].addr, probe.sent[1])
             /\ \E pr \in PreferredRangeLists : InAnyRange(pr, udp2ip(probe.sent[1]))

\* the PromoteEvery-th call asked the lighthouse cache and probed an endpoint
\* of a list of several
C23_Witness ==
    /\ op = "TryPromoteBest"
    /\ probe.queried
    /\ probe.sent # <<>>
    /\ hi.promoteCounter = PromoteEvery
    /\ Len(hi.Remotes) >= 3

\* ------------------------------------------------------------------ deferred packets
\* the sessions the handshake engine binds: a message counter that already
\* counted the handshake messages, not ready, certificate state still held
BoundSessions ==
    {[messageCounter |-> c, ready |-> FALSE, certState |-> "cert", nil |-> FALSE] :
         c \in 0..MaxCounter}

\* the payload of a cached packet names its position among the packets cached
\* since the last flush: P1, P2, ...
NextPayload(h) == Len(h.packetStore) + 1

PacketDone(h, c, st, name) ==
    /\ hi' = h
    /\ calls' = c
    /\ stored' = st
    /\ op' = name
    /\ UNCHANGED <<regVars, epVars, errVars, cntVars, fwVars, raceVars, concVars>>

CallBindConnectionState ==
    \E cs \in BoundSessions :
        PacketDone(BindConnectionState(hi, cs), <<>>, stored, "BindConnectionState")

CallCachePacket ==
    LET c == cachePacket(hi, "message", 0, NextPayload(hi))
    IN  PacketDone(c.h, <<>>, c.stored, "cachePacket")

\* handshakeComplete dereferences the session: it runs on a peer with one bound
CallHandshakeComplete ==
    /\ hi.ConnectionState # NilCS
    /\ \E inc \in 0..1 :
           LET c == handshakeComplete(hi, inc)
           IN  PacketDone(c.h, c.calls, stored, "handshakeComplete")

InitPacket ==
    /\ hi = NewHostInfo
    /\ PacketIdle
    /\ ErrIdle
    /\ CountIdle
    /\ FwIdle
    /\ op = "init"
    /\ RegIdle
    /\ EndpointIdle
    /\ RaceIdle
    /\ ConcIdle

NextPacket ==
    \/ CallBindConnectionState
    \/ CallCachePacket
    \/ CallHandshakeComplete

SpecPacket == InitPacket /\ [][NextPacket]_vars

\* ------------------------------------------------------------------ claims: deferred packets
\* C6: the deferred-packet store holds at most 100 entries, and a cachePacket
\* call made when 100 entries are stored leaves the store unchanged (the call
\* returns nothing: the caller sees no error).
C6_PacketStoreCapped ==
    /\ [](Len(hi.packetStore) <= 100)
    /\ [][(op' = "cachePacket" /\ Len(hi.packetStore) = 100)
              => (hi'.packetStore = hi.packetStore /\ ~stored')]_vars

C6_Witness ==
    op = "cachePacket" /\ ~stored /\ Len(hi.packetStore) = 100

\* C7: right after handshakeComplete returns, the store is empty, the peer's
\* HandshakeComplete flag is set, the session's message counter is at least 2,
\* the session is ready and its certificate state is dropped.
C7_AfterHandshakeComplete ==
    op = "handshakeComplete" =>
        /\ hi.packetStore = <<>>
        /\ hi.HandshakeComplete
        /\ hi.ConnectionState.messageCounter >= 2
        /\ hi.ConnectionState.ready
        /\ hi.ConnectionState.certState = "nil"

C7_Witness ==
    op = "handshakeComplete" /\ Len(calls) = 3 /\ hi.ConnectionState.messageCounter = 2

\* C8: handshakeComplete invokes one callback per stored packet, in the order
\* the packets were cached, and the message counter is set to 2 before the
\* first callback runs.
C8_FlushInOrder ==
    [][op' = "handshakeComplete" =>
          /\ Len(calls') = Len(hi.packetStore)
          /\ \A k \in 1..Len(calls') : calls'[k].cp = hi.packetStore[k]
          /\ (calls' # <<>> => calls'[1].counter = 2)]_vars

C8_Witness ==
    /\ op = "handshakeComplete"
    /\ [k \in 1..Len(calls) |-> calls[k].cp.packet] = <<1, 2, 3>>
    /\ calls[1].counter = 2

\* C24: handshakeComplete never lowers the session's message counter: from a
\* counter c it leaves at least max(c, 2), and exactly max(c, 2) when no packet
\* was deferred, also when it is called a second time on the peer.
C24_CounterNeverLowered ==
    [][op' = "handshakeComplete" =>
          /\ hi'.ConnectionState.messageCounter >= Max(hi.ConnectionState.messageCounter, 2)
          /\ hi.packetStore = <<>> =>
                 hi'.ConnectionState.messageCounter = Max(hi.ConnectionState.messageCounter, 2)]_vars

\* ------------------------------------------------------------------ cachePacket against handshakeComplete
\* A data-path thread calls cachePacket on the peer while a handshake thread
\* calls handshakeComplete on it. Each step is one access of the shared peer;
\* cachePacket takes no lock, so its steps interleave freely with the flush.
RaceDone ==
    /\ op' = op
    /\ UNCHANGED <<regVars, epVars, pktVars, errVars, cntVars, fwVars, concVars>>

\* cachePacket is entered with the next packet (P1, P2, ...)
DpCall ==
    /\ dp.pc = "idle"
    /\ dp.n < MaxRacePackets
    /\ dp' = [dp EXCEPT !.pc = "check", !.n = @ + 1, !.packet = dp.n + 1]
    /\ UNCHANGED <<hi, hs, queueLock, delivered>>
    /\ RaceDone

\* if len(i.packetStore) < 100
DpCheck ==
    /\ dp.pc = "check"
    /\ dp' = [dp EXCEPT !.pc = IF Len(hi.packetStore) < PacketStoreCap THEN "load" ELSE "idle"]
    /\ UNCHANGED <<hi, hs, queueLock, delivered>>
    /\ RaceDone

\* append(i.packetStore, ...) reads the slice
DpLoad ==
    /\ dp.pc = "load"
    /\ dp' = [dp EXCEPT !.pc = "store", !.slice = hi.packetStore]
    /\ UNCHANGED <<hi, hs, queueLock, delivered>>
    /\ RaceDone

\* i.packetStore = the slice with the packet appended; the log line says stored
DpStore ==
    /\ dp.pc = "store"
    /\ hi' = [hi EXCEPT !.packetStore = Append(dp.slice, CachedPacket("message", 0, dp.packet))]
    /\ dp' = [dp EXCEPT !.pc = "idle", !.slice = <<>>, !.kept = @ \cup {dp.packet}]
    /\ UNCHANGED <<hs, queueLock, delivered>>
    /\ RaceDone

\* i.ConnectionState.queueLock.Lock()
HsLock ==
    /\ hs.pc = "idle"
    /\ queueLock = "free"
    /\ queueLock' = "hs"
    /\ hs' = [hs EXCEPT !.pc = "flag"]
    /\ UNCHANGED <<hi, dp, delivered>>
    /\ RaceDone

\* i.HandshakeComplete = true; *i.ConnectionState.messageCounter = 2
HsFlag ==
    /\ hs.pc = "flag"
    /\ hi' = [hi EXCEPT !.HandshakeComplete = TRUE, !.ConnectionState.messageCounter = 2]
    /\ hs' = [hs EXCEPT !.pc = "range"]
    /\ UNCHANGED <<dp, queueLock, delivered>>
    /\ RaceDone

\* for _, cp := range i.packetStore: the range expression is evaluated once
HsRange ==
    /\ hs.pc = "range"
    /\ hs' = [hs EXCEPT !.pc = "loop", !.range = hi.packetStore, !.k = 1]
    /\ UNCHANGED <<hi, dp, queueLock, delivered>>
    /\ RaceDone

\* cp.callback(...): the packet re-enters the send path, which consumes a counter value
HsCallback ==
    /\ hs.pc = "loop"
    /\ hs.k <= Len(hs.range)
    /\ delivered' = Append(delivered, hs.range[hs.k].packet)
    /\ hi' = [hi EXCEPT !.ConnectionState.messageCounter = @ + 1]
    /\ hs' = [hs EXCEPT !.k = @ + 1]
    /\ UNCHANGED <<dp, queueLock>>
    /\ RaceDone

\* i.packetStore = make([]*cachedPacket, 0)
HsReset ==
    /\ hs.pc = "loop"
    /\ hs.k > Len(hs.range)
    /\ hi' = [hi EXCEPT !.packetStore = <<>>]
    /\ hs' = [hs EXCEPT !.pc = "ready", !.range = <<>>, !.k = 0]
    /\ UNCHANGED <<dp, queueLock, delivered>>
    /\ RaceDone

\* i.ConnectionState.ready = true; queueLock.Unlock()
HsReady ==
    /\ hs.pc = "ready"
    /\ hi' = [hi EXCEPT !.ConnectionState.ready = TRUE]
    /\ queueLock' = "free"
    /\ hs' = [hs EXCEPT !.pc = "cert"]
    /\ UNCHANGED <<dp, delivered>>
    /\ RaceDone

\* i.ConnectionState.certState = nil, and handshakeComplete returns
HsCert ==
    /\ hs.pc = "cert"
    /\ hi' = [hi EXCEPT !.ConnectionState.certState = "nil"]
    /\ hs' = [hs EXCEPT !.pc = "done"]
    /\ UNCHANGED <<dp, queueLock, delivered>>
    /\ RaceDone

InitRace ==
    /\ \E cs \in BoundSessions : hi = BindConnectionState(NewHostInfo, cs)
    /\ RaceIdle
    /\ op = "init"
    /\ RegIdle
    /\ EndpointIdle
    /\ PacketIdle
    /\ ErrIdle
    /\ CountIdle
    /\ FwIdle
    /\ ConcIdle

NextRace ==
    \/ DpCall
    \/ DpCheck
    \/ DpLoad
    \/ DpStore
    \/ HsLock
    \/ HsFlag
    \/ HsRange
    \/ HsCallback
    \/ HsReset
    \/ HsReady
    \/ HsCert

SpecRace == InitRace /\ [][NextRace]_vars

\* ------------------------------------------------------------------ claims: the race
Count(s, x) == Cardinality({k \in 1..Len(s) : s[k] = x})
InStore(h, x) == \E k \in 1..Len(h.packetStore) : h.packetStore[k].packet = x

\* C9: when cachePacket and handshakeComplete have run concurrently and both
\* have returned, every packet cachePacket stored was handed to its callback
\* exactly once or is still in the packet store: none is silently discarded.
C9_NoStoredPacketLost ==
    (hs.pc = "done" /\ dp.pc = "idle") =>
        \A x \in dp.kept : Count(delivered, x) = 1 \/ InStore(hi, x)

\* ------------------------------------------------------------------ concurrent AddVpnIP
\* Threads call AddVpnIP on the registry; a step is what a thread does between
\* two operations of the registry's RWMutex. A reader enters when no writer
\* holds or waits for the lock, a writer when nobody holds it.
ConcDone ==
    /\ op' = op
    /\ ret' = ret
    /\ UNCHANGED <<hi, epVars, pktVars, errVars, cntVars, fwVars, raceVars>>

\* the calls that have not yet passed the point where they allocate a peer
Allocating == {t \in Threads : th[t].pc \in {"rlock", "lookup", "runlock", "create"}}

AvCall(t) ==
    /\ th[t].pc \in {"idle", "done"}
    /\ Len(heap) + Cardinality(Allocating) < MaxPeers
    /\ \E ip \in VpnIPs : th' = [th EXCEPT ![t] = [ThreadIdle EXCEPT !.pc = "rlock", !.vpnIP = ip]]
    /\ UNCHANGED <<hm, heap, rw>>
    /\ ConcDone

\* hm.RLock()
AvRLock(t) ==
    /\ th[t].pc = "rlock"
    /\ rw.writer = 0 /\ rw.waiting = {}
    /\ rw' = [rw EXCEPT !.readers = @ \cup {t}]
    /\ th' = [th EXCEPT ![t].pc = "lookup"]
    /\ UNCHANGED <<hm, heap>>
    /\ ConcDone

\* if _, ok := hm.Hosts[vpnIP]; !ok ... else h = hm.Hosts[vpnIP]
AvLookup(t) ==
    /\ th[t].pc = "lookup"
    /\ th' = IF th[t].vpnIP \notin DOMAIN hm.Hosts
             THEN [th EXCEPT ![t].pc = "runlock"]
             ELSE [th EXCEPT ![t].pc = "runlockHit", ![t].h = hm.Hosts[th[t].vpnIP]]
    /\ UNCHANGED <<hm, heap, rw>>
    /\ ConcDone

\* the hit branch: hm.RUnlock(); return h
AvRUnlockHit(t) ==
    /\ th[t].pc = "runlockHit"
    /\ rw' = [rw EXCEPT !.readers = @ \ {t}]
    /\ th' = [th EXCEPT ![t].pc = "done", ![t].ret = th[t].h]
    /\ UNCHANGED <<hm, heap>>
    /\ ConcDone

\* the miss branch: hm.RUnlock()
AvRUnlockMiss(t) ==
    /\ th[t].pc = "runlock"
    /\ rw' = [rw EXCEPT !.readers = @ \ {t}]
    /\ th' = [th EXCEPT ![t].pc = "create"]
    /\ UNCHANGED <<hm, heap>>
    /\ ConcDone

\* h = &HostInfo{...hostId: vpnIP...}, then hm.Lock() is called
AvCreate(t) ==
    /\ th[t].pc = "create"
    /\ heap' = Append(heap, [NewHostInfo EXCEPT !.hostId = th[t].vpnIP])
    /\ th' = [th EXCEPT ![t].pc = "lock", ![t].h = Len(heap) + 1]
    /\ rw' = [rw EXCEPT !.waiting = @ \cup {t}]
    /\ UNCHANGED hm
    /\ ConcDone

\* hm.Lock() returns
AvLock(t) ==
    /\ th[t].pc = "lock"
    /\ rw.writer = 0 /\ rw.readers = {}
    /\ rw' = [rw EXCEPT !.writer = t, !.waiting = @ \ {t}]
    /\ th' = [th EXCEPT ![t].pc = "insert"]
    /\ UNCHANGED <<hm, heap>>
    /\ ConcDone

\* hm.Hosts[vpnIP] = h
AvInsert(t) ==
    /\ th[t].pc = "insert"
    /\ hm' = [hm EXCEPT !.Hosts = Put(@, th[t].vpnIP, th[t].h)]
    /\ th' = [th EXCEPT ![t].pc = "unlock"]
    /\ UNCHANGED <<heap, rw>>
    /\ ConcDone

\* hm.Unlock(); return h
AvUnlock(t) ==
    /\ th[t].pc = "unlock"
    /\ rw' = [rw EXCEPT !.writer = 0]
    /\ th' = [th EXCEPT ![t].pc = "done", ![t].ret = th[t].h]
    /\ UNCHANGED <<hm, heap>>
    /\ ConcDone

InitConc ==
    /\ hm = NewHostMap(VpnCIDR, RegPreferredRanges)
    /\ heap = <<>>
    /\ ret = NoRet
    /\ op = "init"
    /\ th = [t \in Threads |-> ThreadIdle]
    /\ rw = RWFree
    /\ hi = NewHostInfo
    /\ EndpointIdle
    /\ PacketIdle
    /\ ErrIdle
    /\ CountIdle
    /\ FwIdle
    /\ RaceIdle

NextConc ==
    \E t \in Threads :
        \/ AvCall(t)
        \/ AvRLock(t)
        \/ AvLookup(t)
        \/ AvRUnlockHit(t)
        \/ AvRUnlockMiss(t)
        \/ AvCreate(t)
        \/ AvLock(t)
        \/ AvInsert(t)
        \/ AvUnlock(t)

SpecConc == InitConc /\ [][NextConc]_vars

\* ------------------------------------------------------------------ claims: concurrent AddVpnIP
\* C10: AddVpnIP is an atomic get-or-create: any two calls with the same
\* address that have returned (no peer is ever unbound here) returned the
\* same peer record, and that record is the one bound to the address.
C10_AddVpnIPGetOrCreate ==
    \A t1, t2 \in Threads :
        (th[t1].pc = "done" /\ th[t2].pc = "done" /\ th[t1].vpnIP = th[t2].vpnIP)
            => /\ th[t1].ret = th[t2].ret
               /\ hm.Hosts[th[t1].vpnIP] = th[t1].ret

\* ------------------------------------------------------------------ the registry lock
\* Threads call queryVpnIP (as QueryVpnIP or PromoteBestQueryVpnIP), DeleteVpnIP,
\* AddRemote and SetDefaultRoute on one registry. A step is one statement that
\* takes or releases the registry's RWMutex or touches the registry's state.
\* An overlay address outside the overlay network: 10.0.1.1
OutsideIP == VpnBase + 256 + 1
\* the overlay address the threads contend for: 10.0.0.1
LockIPs == {VpnBase + 1}
\* what the lighthouse cache answers when TryPromoteBest asks it: nothing, or
\* an address in the preferred range
LighthouseCache == {<<>>, <<AddrOf(3)>>}

CallerIdle ==
    [pc |-> "idle", fn |-> "none", vpnIp |-> 0, ifce |-> FALSE, debug |-> FALSE,
     remote |-> NoAddr, d |-> 0, sent |-> <<>>, ret |-> 0, err |-> FALSE]

\* the call returns: the thread keeps what it was given back
Returned(t, h, err) ==
    [th EXCEPT ![t] = [CallerIdle EXCEPT !.pc = "done", !.ret = h, !.err = err]]

InFlight(fn) == {t \in Threads : th[t].fn = fn /\ th[t].pc \notin {"idle", "done"}}
\* every peer's counter stays in the windows of PromoteStarts while the calls
\* in flight increment it
PromoteRoom ==
    \A p \in Peers :
        \E s \in PromoteStarts :
            /\ s <= heap[p].promoteCounter
            /\ heap[p].promoteCounter + Cardinality({t \in InFlight("queryVpnIP") : th[t].ifce})
                   < s + MaxPromote

\* a thread enters one of the four operations
LkCall(t) ==
    /\ th[t].pc \in {"idle", "done"}
    /\ \/ \E ip \in LockIPs \cup {OutsideIP}, ifce \in BOOLEAN :
            /\ ifce => PromoteRoom
            /\ th' = [th EXCEPT ![t] =
                        [CallerIdle EXCEPT !.fn = "queryVpnIP", !.vpnIp = ip, !.ifce = ifce,
                             !.pc = IF Contains(hm.vpnCIDR, int2ip(ip)) THEN "rlock" ELSE "route"]]
            /\ rw' = rw
       \/ \E ip \in LockIPs, debug \in BOOLEAN :
            /\ th' = [th EXCEPT ![t] =
                        [CallerIdle EXCEPT !.fn = "DeleteVpnIP", !.vpnIp = ip, !.debug = debug,
                                           !.pc = "lock"]]
            /\ rw' = [rw EXCEPT !.waiting = @ \cup {t}]
       \/ \E ip \in LockIPs, remote \in RegAddrs :
            /\ Len(heap) + Cardinality(InFlight("AddRemote")) < MaxPeers
            /\ th' = [th EXCEPT ![t] =
                        [CallerIdle EXCEPT !.fn = "AddRemote", !.vpnIp = ip, !.remote = remote,
                                           !.pc = "lock"]]
            /\ rw' = [rw EXCEPT !.waiting = @ \cup {t}]
       \/ \E ip \in {0} \cup LockIPs :
            /\ th' = [th EXCEPT ![t] =
                        [CallerIdle EXCEPT !.fn = "SetDefaultRoute", !.vpnIp = ip,
                                           !.pc = "storeRoute"]]
            /\ rw' = rw
    /\ UNCHANGED <<hm, heap>>
    /\ ConcDone

\* queryVpnIP: ... && hm.defaultRoute != 0
QvRoute(t) ==
    /\ th[t].pc = "route"
    /\ th' = [th EXCEPT ![t].pc = IF hm.defaultRoute # 0 THEN "routeHost" ELSE "rlock"]
    /\ UNCHANGED <<hm, heap, rw>>
    /\ ConcDone

\* d := hm.Hosts[hm.defaultRoute]; if d != nil { return hm.Hosts[hm.defaultRoute], nil }
QvRouteHost(t) ==
    /\ \/ /\ th[t].pc = "routeHost"
          /\ th' = [th EXCEPT ![t].d = Lookup(hm.Hosts, hm.defaultRoute),
                              ![t].pc = IF Lookup(hm.Hosts, hm.defaultRoute) # 0
                                        THEN "routeReturn" ELSE "rlock"]
       \/ /\ th[t].pc = "routeReturn"
          /\ th' = Returned(t, Lookup(hm.Hosts, hm.defaultRoute), FALSE)
    /\ UNCHANGED <<hm, heap, rw>>
    /\ ConcDone

\* hm.RLock()
QvRLock(t) ==
    /\ th[t].pc = "rlock"
    /\ rw.writer = 0 /\ rw.waiting = {}
    /\ rw' = [rw EXCEPT !.readers = @ \cup {t}]
    /\ th' = [th EXCEPT ![t].pc = "lookup"]
    /\ UNCHANGED <<hm, heap>>
    /\ ConcDone

\* if h, ok := hm.Hosts[vpnIp]; ok
QvLookup(t) ==
    /\ th[t].pc = "lookup"
    /\ th' = IF th[t].vpnIp \in DOMAIN hm.Hosts
             THEN [th EXCEPT ![t].d = hm.Hosts[th[t].vpnIp], ![t].ret = hm.Hosts[th[t].vpnIp],
                             ![t].pc = IF th[t].ifce THEN "promote" ELSE "runlock"]
             ELSE [th EXCEPT ![t].err = TRUE, ![t].pc = "runlock"]
    /\ UNCHANGED <<hm, heap, rw>>
    /\ ConcDone

\* h.TryPromoteBest(hm.preferredRanges, promoteIfce) up to its call of ifce.send
QvPromote(t) ==
    /\ th[t].pc = "promote"
    /\ \E ips \in IF TryPromoteBest(heap[th[t].d], hm.preferredRanges, <<>>).queried
                  THEN LighthouseCache ELSE {<<>>} :
         LET r == TryPromoteBest(heap[th[t].d], hm.preferredRanges, ips)
         IN  /\ heap' = [heap EXCEPT ![th[t].d] = r.h]
             /\ th' = [th EXCEPT ![t].sent = r.sent,
                                 ![t].pc = IF r.sent # <<>> THEN "send" ELSE "runlock"]
    /\ UNCHANGED <<hm, rw>>
    /\ ConcDone

\* ifce.send(test, testRequest, ...): the test packet is handed to the interface
QvSend(t) ==
    /\ th[t].pc = "send"
    /\ th' = [th EXCEPT ![t].pc = "runlock"]
    /\ UNCHANGED <<hm, heap, rw>>
    /\ ConcDone

\* hm.RUnlock() and return
QvRUnlock(t) ==
    /\ th[t].pc = "runlock"
    /\ rw' = [rw EXCEPT !.readers = @ \ {t}]
    /\ th' = Returned(t, th[t].ret, th[t].err)
    /\ UNCHANGED <<hm, heap>>
    /\ ConcDone

\* hm.Lock() returns
LkLock(t) ==
    /\ th[t].pc = "lock"
    /\ rw.writer = 0 /\ rw.readers = {}
    /\ rw' = [rw EXCEPT !.writer = t, !.waiting = @ \ {t}]
    /\ th' = [th EXCEPT ![t].pc = IF th[t].fn = "DeleteVpnIP" THEN "delete" ELSE "addRemote"]
    /\ UNCHANGED <<hm, heap>>
    /\ ConcDone

\* delete(hm.Hosts, vpnIP)
DvDelete(t) ==
    /\ th[t].pc = "delete"
    /\ hm' = DeleteVpnIP(hm, heap, th[t].vpnIp).hm
    /\ th' = [th EXCEPT ![t].pc = "unlock"]
    /\ UNCHANGED <<heap, rw>>
    /\ ConcDone

\* the body of AddRemote between hm.Lock() and hm.Unlock()
ArBody(t) ==
    /\ th[t].pc = "addRemote"
    /\ LET r == HostMapAddRemote(hm, heap, th[t].vpnIp, th[t].remote)
       IN  /\ hm' = r.hm
           /\ heap' = r.heap
           /\ th' = [th EXCEPT ![t].ret = r.h, ![t].pc = "unlock"]
    /\ rw' = rw
    /\ ConcDone

\* hm.Unlock(); DeleteVpnIP goes on to its log line when the level is Debug
LkUnlock(t) ==
    /\ th[t].pc = "unlock"
    /\ rw' = [rw EXCEPT !.writer = 0]
    /\ th' = IF th[t].fn = "DeleteVpnIP" /\ th[t].debug
             THEN [th EXCEPT ![t].pc = "logLen"]
             ELSE Returned(t, th[t].ret, FALSE)
    /\ UNCHANGED <<hm, heap>>
    /\ ConcDone

\* "mapTotalSize": len(hm.Hosts) in the log line of DeleteVpnIP
DvLog(t) ==
    /\ th[t].pc = "logLen"
    /\ th' = Returned(t, 0, FALSE)
    /\ UNCHANGED <<hm, heap, rw>>
    /\ ConcDone

\* hm.defaultRoute = ip
SdStore(t) ==
    /\ th[t].pc = "storeRoute"
    /\ hm' = SetDefaultRoute(hm, heap, th[t].vpnIp).hm
    /\ th' = Returned(t, 0, FALSE)
    /\ UNCHANGED <<heap, rw>>
    /\ ConcDone

\* the registry after AddRemote(10.0.0.1, 10.1.1.1:4242) and c calls of
\* PromoteBestQueryVpnIP(10.0.0.1): the peer's counter is c
Seeded(c) ==
    LET r == HostMapAddRemote(NewHostMap(VpnCIDR, RegPreferredRanges), <<>>,
                              VpnBase + 1, AddrOf(1))
    IN  [hm |-> r.hm, heap |-> [r.heap EXCEPT ![1].promoteCounter = c]]

InitLock ==
    /\ \E c \in PromoteStarts : hm = Seeded(c).hm /\ heap = Seeded(c).heap
    /\ ret = NoRet
    /\ op = "init"
    /\ th = [t \in Threads |-> CallerIdle]
    /\ rw = RWFree
    /\ hi = NewHostInfo
    /\ EndpointIdle
    /\ PacketIdle
    /\ ErrIdle
    /\ CountIdle
    /\ FwIdle
    /\ RaceIdle

NextLock ==
    \E t \in Threads :
        \/ LkCall(t)
        \/ QvRoute(t)
        \/ QvRouteHost(t)
        \/ QvRLock(t)
        \/ QvLookup(t)
        \/ QvPromote(t)
        \/ QvSend(t)
        \/ QvRUnlock(t)
        \/ LkLock(t)
        \/ DvDelete(t)
        \/ ArBody(t)
        \/ LkUnlock(t)
        \/ DvLog(t)
        \/ SdStore(t)

SpecLock == InitLock /\ [][NextLock]_vars

\* ------------------------------------------------------------------ claims: the registry lock
HoldsShared(t) == t \in rw.readers \/ rw.writer = t
HoldsExclusive(t) == rw.writer = t
\* the statement the thread is at reads, or writes, one of the maps or the
\* default-route field
ReadsRegistry(t) ==
    th[t].pc \in {"route", "routeHost", "routeReturn", "lookup", "logLen", "delete", "addRemote"}
WritesRegistry(t) == th[t].pc \in {"delete", "addRemote", "storeRoute"}

\* C11: every read of the maps or of the default-route field is made by a
\* thread that holds the registry lock (shared or exclusive), every write by a
\* thread that holds it exclusively, and no thread writes while another reads
\* or writes without the lock.
C11_LockDiscipline ==
    /\ \A t \in Threads : ReadsRegistry(t) => HoldsShared(t)
    /\ \A t \in Threads : WritesRegistry(t) => HoldsExclusive(t)
    /\ \A t, u \in Threads :
          (t # u /\ WritesRegistry(t) /\ (ReadsRegistry(u) \/ WritesRegistry(u)))
              => HoldsShared(u)

\* C12: a thread that is handing a test packet to the interface's send hook,
\* inside TryPromoteBest called from queryVpnIP, holds the registry lock neither
\* shared nor exclusively.
C12_SendOutsideLock ==
    \A t \in Threads : th[t].pc = "send" => ~HoldsShared(t)

\* ------------------------------------------------------------------ lookups
\* The registry's lookups beside the operations that bind and unbind peers,
\* one call at a time. ret also names the address a lookup was asked for.
QueryIPs == VpnIPs \cup {OutsideIP}

Answer(r, ip, name) ==
    /\ hm' = r.hm
    /\ heap' = r.heap
    /\ ret' = [h |-> r.h, err |-> r.err, vpnIp |-> ip]
    /\ probe' = r.probe
    /\ op' = name
    /\ UNCHANGED <<hi, adds, onlyAdd, pktVars, errVars, cntVars, fwVars, raceVars, concVars>>

CallSetDefaultRoute ==
    \E ip \in {0} \cup VpnIPs :
        Return(SetDefaultRoute(hm, heap, ip), "SetDefaultRoute")

CallQueryVpnIP ==
    \E ip \in QueryIPs : Answer(QueryVpnIP(hm, heap, ip), ip, "QueryVpnIP")

CallPromoteBestQueryVpnIP ==
    \E ip \in QueryIPs :
        LET quiet == PromoteBestQueryVpnIP(hm, heap, ip, <<>>)
        IN  /\ quiet.h # 0 => MayPromote(heap[quiet.h])
            /\ \E ips \in IF quiet.probe.queried THEN LighthouseCache ELSE {<<>>} :
                   Answer(PromoteBestQueryVpnIP(hm, heap, ip, ips), ip, "PromoteBestQueryVpnIP")

CallQueryIndex ==
    \E index \in IndexIds : Return(QueryIndex(hm, heap, index), "QueryIndex")

InitQuery ==
    /\ \E c \in PromoteStarts : hm = Seeded(c).hm /\ heap = Seeded(c).heap
    /\ ret = NoRet
    /\ op = "init"
    /\ hi = NewHostInfo
    /\ EndpointIdle
    /\ PacketIdle
    /\ ErrIdle
    /\ CountIdle
    /\ FwIdle
    /\ RaceIdle
    /\ ConcIdle

\* lookups by overlay address, with and without promotion, and the default route
NextQuery ==
    \/ CallAddVpnIP
    \/ CallDeleteVpnIP
    \/ CallSetDefaultRoute
    \/ CallQueryVpnIP
    \/ CallPromoteBestQueryVpnIP

SpecQuery == InitQuery /\ [][NextQuery]_vars

\* the session-index map beside the address map
NextIndex ==
    \/ CallAddVpnIP
    \/ CallDeleteVpnIP
    \/ CallAddIndex
    \/ CallDeleteIndex
    \/ CallQueryIndex

SpecIndex == InitQuery /\ [][NextIndex]_vars

\* the registry's AddRemote beside the operations that bind, unbind and look up
\* peers by overlay address
NextRemote ==
    \/ CallAddVpnIP
    \/ CallDeleteVpnIP
    \/ CallAddRemote
    \/ CallQueryVpnIP

SpecRemote == InitQuery /\ [][NextRemote]_vars

\* ------------------------------------------------------------------ claims: lookups
Outside(m, a) == ~Contains(m.vpnCIDR, int2ip(a))
Miss(r) == r.err /\ r.h = 0
Found(r, p) == ~r.err /\ r.h = p /\ p # 0

\* C13 as stated: for an address a with no peer bound to it, queryVpnIP(a) is a
\* lookup miss, unless a is outside the overlay network and the default route
\* is not zero; then it returns the default-route peer.
C13_MissUnlessDefaultRoute ==
    \A a \in QueryIPs, promote \in BOOLEAN :
        a \notin DOMAIN hm.Hosts =>
            LET r == queryVpnIP(hm, heap, a, promote, <<>>)
            IN  IF Outside(hm, a) /\ hm.defaultRoute # 0
                THEN Found(r, Lookup(hm.Hosts, hm.defaultRoute))
                ELSE Miss(r)

\* C13 amended: for an address a with no peer bound to it, queryVpnIP(a) is a
\* lookup miss, unless a is outside the overlay network, the default route is
\* not zero and a peer is bound to the default route's address; then it returns
\* that peer. The last lookup made answered accordingly.
C13_MissUnlessDefaultRoutePeer ==
    /\ \A a \in QueryIPs, promote \in BOOLEAN :
          a \notin DOMAIN hm.Hosts =>
              LET r == queryVpnIP(hm, heap, a, promote, <<>>)
              IN  IF /\ Outside(hm, a)
                     /\ hm.defaultRoute # 0
                     /\ hm.defaultRoute \in DOMAIN hm.Hosts
                  THEN Found(r, hm.Hosts[hm.defaultRoute])
                  ELSE Miss(r)
    /\ (op \in {"QueryVpnIP", "PromoteBestQueryVpnIP"} /\ ret.vpnIp \notin DOMAIN hm.Hosts)
          => IF /\ Outside(hm, ret.vpnIp)
                /\ hm.defaultRoute # 0
                /\ hm.defaultRoute \in DOMAIN hm.Hosts
             THEN Found(ret, hm.Hosts[hm.defaultRoute])
             ELSE Miss(ret)

C13_Witness ==
    /\ op = "QueryVpnIP"
    /\ ret.vpnIp = OutsideIP
    /\ hm.defaultRoute \in DOMAIN hm.Hosts
    /\ Found(ret, hm.Hosts[hm.defaultRoute])

\* C14: AddIndex on an index that is already bound returns an error and leaves
\* the maps and the peers as they are; on an unbound index it binds a new peer
\* with the given session and that localIndexId, which QueryIndex then returns.
C14_AddIndexCollision ==
    /\ \A index \in IndexIds, ci \in Sessions :
          LET r == AddIndex(hm, heap, index, ci)
          IN  IF index \in DOMAIN hm.Indexes
              THEN r.err /\ r.h = 0 /\ r.hm = hm /\ r.heap = heap
              ELSE /\ ~r.err
                   /\ r.h \notin Peers
                   /\ r.hm.Indexes[index] = r.h
                   /\ r.heap[r.h].ConnectionState = ci
                   /\ r.heap[r.h].localIndexId = index
                   /\ QueryIndex(r.hm, r.heap, index) = Result(r.hm, r.heap, r.h, FALSE)
    /\ (op = "AddIndex" /\ ~ret.err)
          => QueryIndex(hm, heap, heap[ret.h].localIndexId).h = ret.h

C14_Witness ==
    op = "AddIndex" /\ ret.err /\ ret.h = 0 /\ DOMAIN hm.Indexes # {}

\* the transport addresses AddRemote is asked about: a private, a public and a
\* preferred one
AskedAddrs == {AddrOf(1), AddrOf(2), AddrOf(3)}

\* C15: after the registry's AddRemote(v, a) a peer is bound to v, its list has
\* an entry with address a and its selected endpoint is the best endpoint of
\* that list for the registry's preferred ranges; if no peer was bound to v
\* before, the list is exactly [a] and the selected endpoint is a.
C15_AddRemoteBindsAndPromotes ==
    /\ \A v \in VpnIPs, a \in AskedAddrs :
          LET r == HostMapAddRemote(hm, heap, v, a)
              p == r.heap[r.h]
          IN  /\ v \in DOMAIN r.hm.Hosts
              /\ r.hm.Hosts[v] = r.h
              /\ r.h # 0
              /\ \E k \in 1..Len(p.Remotes) : Equals(p.Remotes[k].addr, a)
              /\ p.remote = ExpectedBest(p.Remotes, hm.preferredRanges).best
              /\ v \notin DOMAIN hm.Hosts =>
                     (RemoteAddrs(p) = <<a>> /\ p.remote = p.Remotes[1])
    /\ op = "AddRemote" =>
          /\ heap[ret.h].Remotes # <<>>
          /\ heap[ret.h].remote = ExpectedBest(heap[ret.h].Remotes, hm.preferredRanges).best

\* AddRemote ran on a peer whose list holds a preferred entry behind another
\* AddRemote answered with the peer allocated last, bound beside the first one,
\* whose list is the one address given and whose selected endpoint is that entry
C15_Witness ==
    /\ op = "AddRemote"
    /\ ret.h = Len(heap)
    /\ ret.h # 1
    /\ heap[ret.h].hostId \in DOMAIN hm.Hosts
    /\ hm.Hosts[heap[ret.h].hostId] = ret.h
    /\ \E v \in DOMAIN hm.Hosts : hm.Hosts[v] = 1
    /\ RemoteAddrs(heap[ret.h]) = <<AddrOf(1)>>
    /\ heap[ret.h].remote = heap[ret.h].Remotes[1]

\* ------------------------------------------------------------------ receive errors
\* The caller counts receive errors on the peer through RecvErrorExceeded while
\* sessions are bound to the peer, complete their handshake and are cleared.
ErrorsDone(h, e, name) ==
    /\ hi' = h
    /\ exceeded' = e
    /\ op' = name
    /\ UNCHANGED <<regVars, epVars, pktVars, cntVars, fwVars, raceVars, concVars>>

CallRecvErrorExceeded ==
    /\ Len(exceeded) < MaxRecvCalls
    /\ LET r == RecvErrorExceeded(hi)
       IN  ErrorsDone(r.h, Append(exceeded, r.exceeded), "RecvErrorExceeded")

CallClearConnectionState ==
    PacketDone(ClearConnectionState(hi), <<>>, stored, "ClearConnectionState")

NextErrors ==
    \/ CallRecvErrorExceeded
    \/ CallBindConnectionState
    \/ CallHandshakeComplete
    \/ CallClearConnectionState

SpecErrors == InitPacket /\ [][NextErrors]_vars

\* C19: on a fresh peer the k-th call of RecvErrorExceeded returns true if and
\* only if k >= 4.
C19_RecvErrorExceededFromFourth ==
    \A k \in 1..Len(exceeded) : exceeded[k] <=> k >= 4

C19_Witness ==
    /\ op = "RecvErrorExceeded"
    /\ Len(exceeded) >= 5
    /\ exceeded[4] /\ exceeded[5] /\ ~exceeded[3]

\* ------------------------------------------------------------------ the promote counter
\* Send threads call PromoteBestQueryVpnIP(10.0.0.1) on one registry. A step is
\* one statement of queryVpnIP or TryPromoteBest that takes or releases the
\* lock or reads or writes the peer; i.promoteCounter++ is a read and a write.
CountIP == VpnBase + 1
\* 2^32 - 1 as a uint32 is held
MaxUint32 == 0 - 1
\* the counter the peer starts with: as PromoteStarts, or about to wrap
CountStarts == PromoteStarts \cup {MaxUint32}

SenderIdle == [pc |-> "idle", d |-> 0, loaded |-> 0, sent |-> <<>>, ret |-> 0]
Sending == {t \in Threads : th[t].pc \notin {"idle", "done"}}

CountDone ==
    /\ op' = op
    /\ ret' = ret
    /\ UNCHANGED <<hi, epVars, pktVars, errVars, fwVars, raceVars>>

\* PromoteBestQueryVpnIP(vpnIp, ifce): the address is inside the overlay network
PcCall(t) ==
    /\ th[t].pc \in {"idle", "done"}
    /\ counted.n + Cardinality(Sending) < MaxPromote
    /\ Contains(hm.vpnCIDR, int2ip(CountIP))
    /\ th' = [th EXCEPT ![t] = [SenderIdle EXCEPT !.pc = "rlock"]]
    /\ UNCHANGED <<hm, heap, rw, counted>>
    /\ CountDone

\* hm.RLock()
PcRLock(t) ==
    /\ th[t].pc = "rlock"
    /\ rw.writer = 0 /\ rw.waiting = {}
    /\ rw' = [rw EXCEPT !.readers = @ \cup {t}]
    /\ th' = [th EXCEPT ![t].pc = "lookup"]
    /\ UNCHANGED <<hm, heap, counted>>
    /\ CountDone

\* if h, ok := hm.Hosts[vpnIp]; ok { if promoteIfce != nil { h.TryPromoteBest(...
PcLookup(t) ==
    /\ th[t].pc = "lookup"
    /\ th' = IF CountIP \in DOMAIN hm.Hosts
             THEN [th EXCEPT ![t].d = hm.Hosts[CountIP], ![t].ret = hm.Hosts[CountIP],
                             ![t].pc = "load"]
             ELSE [th EXCEPT ![t].pc = "runlock"]
    /\ UNCHANGED <<hm, heap, rw, counted>>
    /\ CountDone

\* if i.remote == nil { i.ForcePromoteBest(preferredRanges); return }, else the
\* read of i.promoteCounter++
PcLoad(t) ==
    /\ th[t].pc = "load"
    /\ IF heap[th[t].d].remote = NilDest
       THEN /\ heap' = [heap EXCEPT ![th[t].d] = ForcePromoteBest(@, hm.preferredRanges)]
            /\ th' = [th EXCEPT ![t].pc = "runlock"]
       ELSE /\ heap' = heap
            /\ th' = [th EXCEPT ![t].loaded = heap[th[t].d].promoteCounter, ![t].pc = "store"]
    /\ UNCHANGED <<hm, rw, counted>>
    /\ CountDone

\* the write of i.promoteCounter++
PcStore(t) ==
    /\ th[t].pc = "store"
    /\ heap' = [heap EXCEPT ![th[t].d].promoteCounter = Uint32Inc(th[t].loaded)]
    /\ th' = [th EXCEPT ![t].pc = "every"]
    /\ UNCHANGED <<hm, rw, counted>>
    /\ CountDone

\* if i.promoteCounter%PromoteEvery == 0 { ... } up to the call of ifce.send
PcEvery(t) ==
    /\ th[t].pc = "every"
    /\ \E ips \in IF PromoteEveryNth(heap[th[t].d], hm.preferredRanges, <<>>).queried
                  THEN LighthouseCache ELSE {<<>>} :
         LET r == PromoteEveryNth(heap[th[t].d], hm.preferredRanges, ips)
         IN  /\ heap' = [heap EXCEPT ![th[t].d] = r.h]
             /\ th' = [th EXCEPT ![t].sent = r.sent,
                                 ![t].pc = IF r.sent # <<>> THEN "send" ELSE "runlock"]
    /\ UNCHANGED <<hm, rw, counted>>
    /\ CountDone

\* ifce.send(test, testRequest, ...)
PcSend(t) ==
    /\ th[t].pc = "send"
    /\ th' = [th EXCEPT ![t].pc = "runlock"]
    /\ UNCHANGED <<hm, heap, rw, counted>>
    /\ CountDone

\* hm.RUnlock() and return: a call that found the peer is counted
PcRUnlock(t) ==
    /\ th[t].pc = "runlock"
    /\ rw' = [rw EXCEPT !.readers = @ \ {t}]
    /\ th' = [th EXCEPT ![t] = [SenderIdle EXCEPT !.pc = "done", !.ret = th[t].ret]]
    /\ counted' = IF th[t].ret # 0 THEN [counted EXCEPT !.n = @ + 1] ELSE counted
    /\ UNCHANGED <<hm, heap>>
    /\ CountDone

InitCount ==
    /\ \E c \in CountStarts :
          /\ hm = Seeded(c).hm
          /\ heap = Seeded(c).heap
          /\ counted = [start |-> c, n |-> 0]
    /\ ret = NoRet
    /\ op = "init"
    /\ th = [t \in Threads |-> SenderIdle]
    /\ rw = RWFree
    /\ hi = NewHostInfo
    /\ EndpointIdle
    /\ PacketIdle
    /\ ErrIdle
    /\ FwIdle
    /\ RaceIdle

NextCount ==
    \E t \in Threads :
        \/ PcCall(t)
        \/ PcRLock(t)
        \/ PcLookup(t)
        \/ PcLoad(t)
        \/ PcStore(t)
        \/ PcEvery(t)
        \/ PcSend(t)
        \/ PcRUnlock(t)

SpecCount == InitCount /\ [][NextCount]_vars

\* ------------------------------------------------------------------ claims: the promote counter
\* C21: when no call is in progress, the peer's promoteCounter is the counter it
\* started with plus the number of PromoteBestQueryVpnIP calls that found the
\* peer, modulo 2^32, whether the calls ran one after the other or at once.
C21_CounterCountsQueries ==
    Sending = {} =>
        heap[hm.Hosts[CountIP]].promoteCounter = Uint32Add(counted.start, counted.n)

\* ------------------------------------------------------------------ newPacket
\* newPacket(data, incoming, fp) fills the firewall's packet from the bytes of
\* an IP packet. A header is what the test marshals: version, addresses,
\* options (IPv4), protocol, and the two ports at the start of the payload.
ProtoTCP == 6
ProtoUDP == 17
IPv4HeaderLen == 20
IPv6HeaderLen == 40
\* the bytes of the payload newPacket reads: two ports
MinFwPacketLen == 4

Zeros(n) == [k \in 1..n |-> 0]
Uint16(hi8, lo8) == hi8 * 256 + lo8
PutUint16(n) == <<n \div 256, n % 256>>
Slice(data, from, to) == [k \in 1..(to - from + 1) |-> data[from + k - 1]]

\* ipv4.Header.Marshal followed by the four bytes of the ports
MarshalV4(h) ==
    <<4 * 16 + (IPv4HeaderLen + Len(h.Options)) \div 4>> \o Zeros(8) \o <<h.Protocol>>
        \o Zeros(2) \o h.Src \o h.Dst \o h.Options
        \o PutUint16(h.SrcPort) \o PutUint16(h.DstPort)

\* gopacket.SerializeLayers of an IPv6 header and the header that carries the ports
MarshalV6(h) ==
    <<6 * 16>> \o Zeros(5) \o <<h.Protocol, 128>> \o h.Src \o h.Dst
        \o PutUint16(h.SrcPort) \o PutUint16(h.DstPort) \o Zeros(4)

Marshal(h) == IF h.Version = 4 THEN MarshalV4(h) ELSE MarshalV6(h)

Failed(msg) == [fp |-> NoPacket, err |-> msg]
\* the packet as the firewall sees it: the far side is Remote, this side is Local
Oriented(protocol, src, dst, srcPort, dstPort, incoming) ==
    [fp |-> IF incoming
            THEN [Protocol |-> protocol, RemoteIP |-> src, LocalIP |-> dst,
                  RemotePort |-> srcPort, LocalPort |-> dstPort]
            ELSE [Protocol |-> protocol, LocalIP |-> src, RemoteIP |-> dst,
                  LocalPort |-> srcPort, RemotePort |-> dstPort],
     err |-> "nil"]

\* newPacket with the ports assigned as for an incoming packet in both directions
newPacketPortsIncoming(data, incoming) ==
    IF Len(data) < 1 THEN Failed("packet too short")
    ELSE LET version == data[1] \div 16
         IN  IF version = 4
             THEN LET ihl == (data[1] % 16) * 4
                  IN  IF Len(data) < IPv4HeaderLen
                      THEN Failed("ipv4 packet is less than 20 bytes")
                      ELSE IF ihl < IPv4HeaderLen
                      THEN Failed("ipv4 packet had an invalid header length")
                      ELSE IF Len(data) < ihl + MinFwPacketLen
                      THEN Failed("ipv4 packet is less than ihl + 4 bytes")
                      ELSE LET o == Oriented(data[10], Slice(data, 13, 16), Slice(data, 17, 20),
                                      Uint16(data[ihl + 1], data[ihl + 2]),
                                      Uint16(data[ihl + 3], data[ihl + 4]), incoming)
                           IN  [o EXCEPT !.fp.RemotePort = Uint16(data[ihl + 1], data[ihl + 2]),
                                         !.fp.LocalPort = Uint16(data[ihl + 3], data[ihl + 4])]
             ELSE IF version = 6
             THEN IF Len(data) < IPv6HeaderLen + MinFwPacketLen
                  THEN Failed("ipv6 packet is less than 20 bytes")
                  ELSE Oriented(data[7], Slice(data, 9, 24), Slice(data, 25, 40),
                                Uint16(data[41], data[42]), Uint16(data[43], data[44]), incoming)
             ELSE Failed("packet is an unknown ip version")

\* newPacket: the packet filled in and the error
newPacket(data, incoming) ==
    IF Len(data) < 1 THEN Failed("packet too short")
    ELSE LET version == data[1] \div 16
         IN  IF version = 4
             THEN LET ihl == (data[1] % 16) * 4
                  IN  IF Len(data) < IPv4HeaderLen
                      THEN Failed("ipv4 packet is less than 20 bytes")
                      ELSE IF ihl < IPv4HeaderLen
                      THEN Failed("ipv4 packet had an invalid header length")
                      ELSE IF Len(data) < ihl + MinFwPacketLen
                      THEN Failed("ipv4 packet is less than ihl + 4 bytes")
                      ELSE Oriented(data[10], Slice(data, 13, 16), Slice(data, 17, 20),
                                    Uint16(data[ihl + 1], data[ihl + 2]),
                                    Uint16(data[ihl + 3], data[ihl + 4]), incoming)
             ELSE IF version = 6
             THEN IF Len(data) < IPv6HeaderLen + MinFwPacketLen
                  THEN Failed("ipv6 packet is less than 20 bytes")
                  ELSE Oriented(data[7], Slice(data, 9, 24), Slice(data, 25, 40),
                                Uint16(data[41], data[42]), Uint16(data[43], data[44]), incoming)
             ELSE Failed("packet is an unknown ip version")

\* the headers of the tests: 10.0.0.1 and 10.0.0.2 with and without options,
\* ff02::2 and ff02::1, protocols TCP, UDP and 2, ports of one and of two bytes
V4Addrs == {IPv4(10, 0, 0, 1), IPv4(10, 0, 0, 2)}
V6Addrs == {<<255, 2>> \o Zeros(13) \o <<2>>, <<255, 2>> \o Zeros(13) \o <<1>>}
TestPorts == {3, 4, 22, 36123}
TestProtocols == {ProtoTCP, ProtoUDP, 2}
TestHeaders ==
    {h \in [Version : {4}, Src : V4Addrs, Dst : V4Addrs, Options : {<<>>, <<0, 1, 0, 2>>},
            Protocol : TestProtocols, SrcPort : TestPorts, DstPort : TestPorts]
        \cup [Version : {6}, Src : V6Addrs, Dst : V6Addrs, Options : {<<>>},
              Protocol : TestProtocols, SrcPort : TestPorts, DstPort : TestPorts] :
        h.Src # h.Dst /\ h.SrcPort # h.DstPort}
NoHeader ==
    [Version |-> 0, Src |-> <<>>, Dst |-> <<>>, Options |-> <<>>, Protocol |-> 0,
     SrcPort |-> 0, DstPort |-> 0]
\* the byte strings of the tests that are no packet
BadData ==
    {<<>>, <<64>>, <<96>>, Zeros(20), <<4 * 16 + 2>> \o Zeros(19),
     <<4 * 16 + 6>> \o Zeros(11) \o IPv4(10, 0, 0, 1) \o IPv4(10, 0, 0, 2) \o <<0, 1, 0, 2>>}

Parsed(h, data, incoming) ==
    /\ pkt' = [data |-> data, incoming |-> incoming, hdr |-> h,
               fp |-> newPacket(data, incoming).fp, err |-> newPacket(data, incoming).err]
    /\ op' = "newPacket"
    /\ UNCHANGED <<regVars, hi, epVars, pktVars, errVars, cntVars, raceVars, concVars>>

CallNewPacket ==
    \E h \in TestHeaders, incoming \in BOOLEAN : Parsed(h, Marshal(h), incoming)

CallNewPacketBadData ==
    \E data \in BadData, incoming \in BOOLEAN : Parsed(NoHeader, data, incoming)

InitFirewall ==
    /\ pkt = NoCall
    /\ op = "init"
    /\ hi = NewHostInfo
    /\ RegIdle
    /\ EndpointIdle
    /\ PacketIdle
    /\ ErrIdle
    /\ CountIdle
    /\ RaceIdle
    /\ ConcIdle

NextFirewall ==
    \/ CallNewPacket
    \/ CallNewPacketBadData

SpecFirewall == InitFirewall /\ [][NextFirewall]_vars

\* ------------------------------------------------------------------ claims: newPacket
\* C22: for a valid IPv4 or IPv6 packet, newPacket with incoming = true makes
\* the packet's source address and port RemoteIP and RemotePort and its
\* destination address and port LocalIP and LocalPort; with incoming = false the
\* assignment is swapped; Protocol is the packet's protocol in both directions.
C22_OrientedByDirection ==
    pkt.hdr \in TestHeaders =>
        /\ pkt.err = "nil"
        /\ pkt.fp.Protocol = pkt.hdr.Protocol
        /\ IF pkt.incoming
           THEN /\ pkt.fp.RemoteIP = pkt.hdr.Src /\ pkt.fp.RemotePort = pkt.hdr.SrcPort
                /\ pkt.fp.LocalIP = pkt.hdr.Dst /\ pkt.fp.LocalPort = pkt.hdr.DstPort
           ELSE /\ pkt.fp.LocalIP = pkt.hdr.Src /\ pkt.fp.LocalPort = pkt.hdr.SrcPort
                /\ pkt.fp.RemoteIP = pkt.hdr.Dst /\ pkt.fp.RemotePort = pkt.hdr.DstPort
        /\ LET other == newPacket(pkt.data, ~pkt.incoming).fp
           IN  /\ other.Protocol = pkt.fp.Protocol
               /\ other.LocalIP = pkt.fp.RemoteIP /\ other.RemoteIP = pkt.fp.LocalIP
               /\ other.LocalPort = pkt.fp.RemotePort /\ other.RemotePort = pkt.fp.LocalPort

\* an outgoing IPv4 packet with options and a two-byte port has been parsed
C22_Witness ==
    /\ op = "newPacket"
    /\ ~pkt.incoming
    /\ pkt.hdr.Version = 4
    /\ pkt.hdr.Options # <<>>
    /\ pkt.hdr.SrcPort = 36123
    /\ pkt.fp.LocalPort = 36123
    /\ pkt.fp.RemoteIP = IPv4(10, 0, 0, 2)

\* ------------------------------------------------------------------ unbinding
\* Peers are bound and unbound under overlay addresses inside and outside the
\* overlay network and under session indexes, and the default route is set,
\* one call at a time.
DeleteIPs == VpnIPs \cup {OutsideIP}

CallAddVpnIPOutside ==
    /\ OutsideIP \in DOMAIN hm.Hosts \/ Room
    /\ Return(AddVpnIP(hm, heap, OutsideIP), "AddVpnIP")

CallDeleteVpnIPOutside ==
    Return(DeleteVpnIP(hm, heap, OutsideIP), "DeleteVpnIP")

NextDelete ==
    \/ CallAddVpnIP
    \/ CallAddVpnIPOutside
    \/ CallDeleteVpnIP
    \/ CallDeleteVpnIPOutside
    \/ CallAddIndex
    \/ CallDeleteIndex
    \/ CallSetDefaultRoute

SpecDelete == Init /\ [][NextDelete]_vars

\* ------------------------------------------------------------------ claims: unbinding
\* DeleteVpnIP(v) leaves r: only the binding of v is gone from Hosts
OnlyHostGone(r, v) ==
    /\ DOMAIN r.hm.Hosts = DOMAIN hm.Hosts \ {v}
    /\ \A k \in DOMAIN r.hm.Hosts : r.hm.Hosts[k] = hm.Hosts[k]
    /\ r.hm.Indexes = hm.Indexes
    /\ r.hm.defaultRoute = hm.defaultRoute
    /\ r.heap = heap
\* DeleteIndex(i) leaves r: only the binding of i is gone from Indexes
OnlyIndexGone(r, i) ==
    /\ DOMAIN r.hm.Indexes = DOMAIN hm.Indexes \ {i}
    /\ \A k \in DOMAIN r.hm.Indexes : r.hm.Indexes[k] = hm.Indexes[k]
    /\ r.hm.Hosts = hm.Hosts
    /\ r.hm.defaultRoute = hm.defaultRoute
    /\ r.heap = heap
    /\ Miss(QueryIndex(r.hm, r.heap, i))

\* C25 as stated: DeleteVpnIP(v) of a bound v removes only the binding of v
\* from Hosts, DeleteIndex(i) only the binding of i from Indexes; the other
\* map, the other bindings and every peer record stay as they are, and a
\* lookup of the deleted key is then a miss.
C25_DeleteRemovesOnlyTheKey ==
    /\ \A v \in DOMAIN hm.Hosts :
          LET r == DeleteVpnIP(hm, heap, v)
          IN  OnlyHostGone(r, v) /\ Miss(QueryVpnIP(r.hm, r.heap, v))
    /\ \A i \in DOMAIN hm.Indexes : OnlyIndexGone(DeleteIndex(hm, heap, i), i)

\* C25 amended: as stated, except that the lookup of a deleted overlay address
\* outside the overlay network returns the default-route peer when the default
\* route is not zero and a peer is bound to its address. The last delete made
\* left the other map and the peer records alone.
C25_DeleteRemovesOnlyTheKeyRoute ==
    /\ [](/\ \A v \in DeleteIPs :
               LET r == DeleteVpnIP(hm, heap, v)
                   q == QueryVpnIP(r.hm, r.heap, v)
               IN  /\ OnlyHostGone(r, v)
                   /\ IF /\ Outside(r.hm, v)
                         /\ r.hm.defaultRoute # 0
                         /\ r.hm.defaultRoute \in DOMAIN r.hm.Hosts
                      THEN Found(q, r.hm.Hosts[r.hm.defaultRoute])
                      ELSE Miss(q)
          /\ \A i \in IndexIds : OnlyIndexGone(DeleteIndex(hm, heap, i), i))
    /\ [][/\ op' = "DeleteVpnIP" =>
                /\ hm'.Indexes = hm.Indexes /\ heap' = heap
                /\ \A k \in DOMAIN hm'.Hosts : k \in DOMAIN hm.Hosts /\ hm'.Hosts[k] = hm.Hosts[k]
                /\ Cardinality(DOMAIN hm.Hosts \ DOMAIN hm'.Hosts) <= 1
          /\ op' = "DeleteIndex" =>
                /\ hm'.Hosts = hm.Hosts /\ heap' = heap
                /\ \A k \in DOMAIN hm'.Indexes :
                       k \in DOMAIN hm.Indexes /\ hm'.Indexes[k] = hm.Indexes[k]
                /\ Cardinality(DOMAIN hm.Indexes \ DOMAIN hm'.Indexes) <= 1]_vars

\* the peer of the outside address was unbound while the default route is
\* bound: its record is still on the heap
C25_Witness ==
    /\ op = "DeleteVpnIP"
    /\ OutsideIP \notin DOMAIN hm.Hosts
    /\ hm.defaultRoute \in DOMAIN hm.Hosts
    /\ \E p \in Peers : heap[p].hostId = OutsideIP

\* ------------------------------------------------------------------ lookups by remote index
\* Two peers whose remote indexes the handshake has filled in are bound under
\* an overlay address and a session index each; sessions are bound and cleared,
\* bindings deleted, and the registry is asked for a remote index.
RemoteIndexIds == {0} \cup IndexIds

RevSeeded(r1, r2) ==
    LET hp == <<[NewHostInfo EXCEPT !.remoteIndexId = r1],
                [NewHostInfo EXCEPT !.remoteIndexId = r2]>>
        a == AddVpnIPHostInfo(NewHostMap(VpnCIDR, RegPreferredRanges), hp, VpnBase + 1, 1)
        b == AddVpnIPHostInfo(a.hm, a.heap, VpnBase + 2, 2)
        c == AddIndexHostInfo(b.hm, b.heap, 1, 1)
    IN  AddIndexHostInfo(c.hm, c.heap, 2, 2)

InitRev ==
    /\ \E r1, r2 \in RemoteIndexIds :
          hm = RevSeeded(r1, r2).hm /\ heap = RevSeeded(r1, r2).heap
    /\ ret = NoRet
    /\ op = "init"
    /\ hi = NewHostInfo
    /\ EndpointIdle
    /\ PacketIdle
    /\ ErrIdle
    /\ CountIdle
    /\ FwIdle
    /\ RaceIdle
    /\ ConcIdle

CallBindPeer ==
    \E p \in Peers :
        Return(Result(hm, [heap EXCEPT ![p] = BindConnectionState(@, NewCS)], 0, FALSE),
               "BindConnectionState")

CallClearPeer ==
    \E p \in Peers :
        Return(Result(hm, [heap EXCEPT ![p] = ClearConnectionState(@)], 0, FALSE),
               "ClearConnectionState")

CallQueryReverseIndex ==
    \E index \in RemoteIndexIds : \E r \in QueryReverseIndex(hm, heap, index) :
        /\ hm' = r.hm
        /\ heap' = r.heap
        /\ ret' = [h |-> r.h, err |-> r.err, index |-> index]
        /\ op' = "QueryReverseIndex"
        /\ UNCHANGED <<hi, epVars, pktVars, errVars, cntVars, fwVars, raceVars, concVars>>

NextRev ==
    \/ CallBindPeer
    \/ CallClearPeer
    \/ CallDeleteVpnIP
    \/ CallDeleteIndex
    \/ CallQueryReverseIndex

SpecRev == InitRev /\ [][NextRev]_vars

\* ------------------------------------------------------------------ claims: lookups by remote index
BoundPeers ==
    {hm.Indexes[k] : k \in DOMAIN hm.Indexes} \cup {hm.Hosts[k] : k \in DOMAIN hm.Hosts}
\* the bound peers with a session whose remote index is r
SessionsOf(r) ==
    {p \in BoundPeers : ~heap[p].ConnectionState.nil /\ heap[p].remoteIndexId = r}
\* q answers the lookup of r as the claim says
ReverseAnswer(q, r) ==
    /\ ~q.err <=> SessionsOf(r) # {}
    /\ ~q.err => q.h \in SessionsOf(r)
    /\ q.err => q.h = 0

\* C26: QueryReverseIndex(r) returns a peer exactly when some peer bound in
\* Indexes or Hosts has a session and the remote index r; the peer it returns is
\* such a peer, so never one without a session; otherwise it is a miss. It
\* changes nothing.
C26_ReverseIndexNeedsSession ==
    /\ \A r \in RemoteIndexIds :
          \A q \in QueryReverseIndex(hm, heap, r) :
              ReverseAnswer(q, r) /\ q.hm = hm /\ q.heap = heap
    /\ op = "QueryReverseIndex" => ReverseAnswer(ret, ret.index)

\* the lookup passed over a peer bound under a session index that has the remote
\* index asked for and no session, and found one bound under an overlay address
C26_Witness ==
    /\ op = "QueryReverseIndex"
    /\ ~ret.err
    /\ \A k \in DOMAIN hm.Indexes : hm.Indexes[k] # ret.h
    /\ \E k \in DOMAIN hm.Indexes :
          /\ heap[hm.Indexes[k]].remoteIndexId = ret.index
          /\ heap[hm.Indexes[k]].ConnectionState.nil

\* ------------------------------------------------------------------ holding the registry lock
\* Threads call AddVpnIP, AddIndex, CheckHandshakeCompleteIP, ClearRemotes and
\* queryVpnIP over and over. The RWMutex is Go's: Lock first takes the writers'
\* mutex and from then on keeps new readers out, then waits for the readers
\* inside to leave; Unlock lets in the readers that were kept out.
HolderIdle == [pc |-> "idle", fn |-> "none", key |-> 0, ifce |-> FALSE, h |-> 0]
HoldFree == [readers |-> {}, writer |-> 0, waiting |-> {}, blocked |-> {}, pending |-> 0]
\* the overlay address and the session index the threads contend for
HoldIP == VpnBase + 1
HoldIndex == Min(1, MaxIndex)

\* ClearRemotes returning on an unbound address without hm.Unlock()
BranchNoUnlock(c, found) ==
    CASE c.pc = "route" -> IF found THEN "done" ELSE "rlock"
      [] c.pc = "lookup" -> IF c.fn = "queryVpnIP" /\ found /\ c.ifce THEN "promote" ELSE "runlock"
      [] c.pc = "promote" -> "runlock"
      [] c.pc = "runlock" -> IF c.fn = "AddVpnIP" /\ ~found THEN "create" ELSE "done"
      [] c.pc = "create" -> "lock"
      [] c.pc = "locked" -> IF c.fn = "AddVpnIP" THEN "insert"
                            ELSE IF c.fn = "AddIndex" THEN "addIndex" ELSE "clear"
      [] c.pc = "clear" -> IF found THEN "unlock" ELSE "done"
      [] c.pc \in {"insert", "addIndex"} -> "unlock"
      [] c.pc = "unlock" -> "done"

\* where a call goes on after the statement it is at; found tells whether the
\* map read of that statement found a peer
Branch(c, found) ==
    CASE c.pc = "route" -> IF found THEN "done" ELSE "rlock"
      [] c.pc = "lookup" -> IF c.fn = "queryVpnIP" /\ found /\ c.ifce THEN "promote" ELSE "runlock"
      [] c.pc = "promote" -> "runlock"
      [] c.pc = "runlock" -> IF c.fn = "AddVpnIP" /\ ~found THEN "create" ELSE "done"
      [] c.pc = "create" -> "lock"
      [] c.pc = "locked" -> IF c.fn = "AddVpnIP" THEN "insert"
                            ELSE IF c.fn = "AddIndex" THEN "addIndex" ELSE "clear"
      [] c.pc \in {"insert", "addIndex", "clear"} -> "unlock"
      [] c.pc = "unlock" -> "done"

\* thread t goes on to pc; a call that returns forgets its locals
GoOn(t, pc, h) ==
    th' = [th EXCEPT ![t] = IF pc = "done" THEN [HolderIdle EXCEPT !.pc = "done"]
                            ELSE [@ EXCEPT !.pc = pc, !.h = h]]

HdCall(t) ==
    /\ th[t].pc \in {"idle", "done"}
    /\ \/ \E fn \in {"AddVpnIP", "CheckHandshakeCompleteIP"} :
            th' = [th EXCEPT ![t] = [HolderIdle EXCEPT !.fn = fn, !.key = HoldIP, !.pc = "rlock"]]
       \/ th' = [th EXCEPT ![t] = [HolderIdle EXCEPT !.fn = "ClearRemotes", !.key = HoldIP,
                                                     !.pc = "lock"]]
       \/ th' = [th EXCEPT ![t] = [HolderIdle EXCEPT !.fn = "AddIndex", !.key = HoldIndex,
                                                     !.pc = "lock"]]
       \/ \E ip \in {HoldIP, OutsideIP}, ifce \in BOOLEAN :
            th' = [th EXCEPT ![t] = [HolderIdle EXCEPT !.fn = "queryVpnIP", !.key = ip,
                                                       !.ifce = ifce, !.pc = "route"]]
    /\ UNCHANGED <<hm, heap, rw>>
    /\ ConcDone

\* queryVpnIP: the default route's peer is returned before the lock is taken
HdRoute(t) ==
    /\ th[t].pc = "route"
    /\ LET d == IF ~Contains(hm.vpnCIDR, int2ip(th[t].key)) /\ hm.defaultRoute # 0
                THEN Lookup(hm.Hosts, hm.defaultRoute) ELSE 0
       IN  GoOn(t, Branch(th[t], d # 0), d)
    /\ UNCHANGED <<hm, heap, rw>>
    /\ ConcDone

\* hm.RLock(): the reader is let in, or kept out by a writer that holds or
\* has asked for the lock
HdRLock(t) ==
    /\ th[t].pc = "rlock"
    /\ IF rw.writer = 0 /\ rw.pending = 0
       THEN rw' = [rw EXCEPT !.readers = @ \cup {t}] /\ GoOn(t, "lookup", 0)
       ELSE rw' = [rw EXCEPT !.blocked = @ \cup {t}] /\ GoOn(t, "rwait", 0)
    /\ UNCHANGED <<hm, heap>>
    /\ ConcDone

\* hm.RLock() returns to a reader that was kept out
HdRWake(t) ==
    /\ th[t].pc = "rwait"
    /\ t \in rw.readers
    /\ GoOn(t, "lookup", 0)
    /\ UNCHANGED <<hm, heap, rw>>
    /\ ConcDone

\* the read of hm.Hosts[vpnIP] under the shared lock
HdLookup(t) ==
    /\ th[t].pc = "lookup"
    /\ GoOn(t, Branch(th[t], th[t].key \in DOMAIN hm.Hosts), Lookup(hm.Hosts, th[t].key))
    /\ UNCHANGED <<hm, heap, rw>>
    /\ ConcDone

\* h.TryPromoteBest(hm.preferredRanges, promoteIfce)
HdPromote(t) ==
    /\ th[t].pc = "promote"
    /\ heap' = [heap EXCEPT ![th[t].h] = TryPromoteBest(@, hm.preferredRanges, <<>>).h]
    /\ GoOn(t, Branch(th[t], TRUE), th[t].h)
    /\ UNCHANGED <<hm, rw>>
    /\ ConcDone

\* hm.RUnlock()
HdRUnlock(t) ==
    /\ th[t].pc = "runlock"
    /\ rw' = [rw EXCEPT !.readers = @ \ {t}]
    /\ GoOn(t, Branch(th[t], th[t].h # 0), 0)
    /\ UNCHANGED <<hm, heap>>
    /\ ConcDone

\* AddVpnIP: h = &HostInfo{...hostId: vpnIP...}
HdCreate(t) ==
    /\ th[t].pc = "create"
    /\ heap' = Append(heap, [NewHostInfo EXCEPT !.hostId = th[t].key])
    /\ GoOn(t, Branch(th[t], FALSE), Len(heap) + 1)
    /\ UNCHANGED <<hm, rw>>
    /\ ConcDone

\* hm.Lock() takes the writers' mutex: new readers are kept out from now on
HdLock(t) ==
    /\ th[t].pc = "lock"
    /\ rw.writer = 0 /\ rw.pending = 0
    /\ rw' = [rw EXCEPT !.pending = t, !.waiting = @ \cup {t}]
    /\ GoOn(t, "lockWait", th[t].h)
    /\ UNCHANGED <<hm, heap>>
    /\ ConcDone

\* hm.Lock() returns when the readers inside have left
HdLocked(t) ==
    /\ th[t].pc = "lockWait"
    /\ rw.readers = {}
    /\ rw' = [rw EXCEPT !.writer = t, !.pending = 0, !.waiting = @ \ {t}]
    /\ GoOn(t, Branch([th[t] EXCEPT !.pc = "locked"], FALSE), th[t].h)
    /\ UNCHANGED <<hm, heap>>
    /\ ConcDone

\* AddVpnIP: hm.Hosts[vpnIP] = h
HdInsert(t) ==
    /\ th[t].pc = "insert"
    /\ hm' = [hm EXCEPT !.Hosts = Put(@, th[t].key, th[t].h)]
    /\ GoOn(t, Branch(th[t], TRUE), th[t].h)
    /\ UNCHANGED <<heap, rw>>
    /\ ConcDone

\* the body of AddIndex: the peer is bound, or the index is found bound
HdAddIndex(t) ==
    /\ th[t].pc = "addIndex"
    /\ LET r == AddIndex(hm, heap, th[t].key, NewCS)
       IN  hm' = r.hm /\ heap' = r.heap /\ GoOn(t, Branch(th[t], ~r.err), r.h)
    /\ rw' = rw
    /\ ConcDone

\* the body of ClearRemotes: i := hm.Hosts[vpnIP]; if i == nil ...; i.ClearRemotes()
HdClear(t) ==
    /\ th[t].pc = "clear"
    /\ LET i == Lookup(hm.Hosts, th[t].key)
       IN  /\ heap' = IF i = 0 THEN heap ELSE [heap EXCEPT ![i] = ClearRemotes(@)]
           /\ GoOn(t, Branch(th[t], i # 0), i)
    /\ UNCHANGED <<hm, rw>>
    /\ ConcDone

\* hm.Unlock(): the readers kept out are let in
HdUnlock(t) ==
    /\ th[t].pc = "unlock"
    /\ rw' = [rw EXCEPT !.writer = 0, !.readers = rw.blocked, !.blocked = {}]
    /\ GoOn(t, Branch(th[t], TRUE), 0)
    /\ UNCHANGED <<hm, heap>>
    /\ ConcDone

\* the default route is unset, or set to the contended address
InitHold ==
    /\ \E ip \in {0, HoldIP} :
          hm = SetDefaultRoute(NewHostMap(VpnCIDR, RegPreferredRanges), <<>>, ip).hm
    /\ heap = <<>>
    /\ ret = NoRet
    /\ op = "init"
    /\ th = [t \in Threads |-> HolderIdle]
    /\ rw = HoldFree
    /\ hi = NewHostInfo
    /\ EndpointIdle
    /\ PacketIdle
    /\ ErrIdle
    /\ CountIdle
    /\ FwIdle
    /\ RaceIdle

\* what thread t does when it is scheduled inside a call
HdStep(t) ==
    \/ HdRoute(t)
    \/ HdRLock(t)
    \/ HdRWake(t)
    \/ HdLookup(t)
    \/ HdPromote(t)
    \/ HdRUnlock(t)
    \/ HdCreate(t)
    \/ HdLocked(t)
    \/ HdInsert(t)
    \/ HdAddIndex(t)
    \/ HdClear(t)
    \/ HdUnlock(t)

NextHold == \E t \in Threads : HdCall(t) \/ HdStep(t) \/ HdLock(t)

\* every thread inside a call is scheduled again, and the writers' mutex is
\* handed to every thread that keeps asking for it
SpecHold ==
    /\ InitHold
    /\ [][NextHold]_vars
    /\ \A t \in Threads : WF_vars(HdStep(t)) /\ SF_vars(HdLock(t))

\* ------------------------------------------------------------------ claims: holding the registry lock
Holds(t) == t \in rw.readers \/ rw.writer = t
InCall(t) == th[t].pc \notin {"idle", "done"}

\* C27: a thread that is in no call, or is asking for the lock, does not hold
\* it, so every return path has released it and nobody asks for it while
\* holding it; the lock is not held when no call is in progress; and every
\* call that was started returns.
C27_LockAlwaysReleased ==
    /\ [](/\ \A t \in Threads : ~InCall(t) => ~Holds(t)
          /\ \A t \in Threads : th[t].pc \in {"rlock", "lock", "lockWait"} => ~Holds(t)
          /\ (\A t \in Threads : ~InCall(t)) => rw = HoldFree)
    /\ \A t \in Threads : InCall(t) ~> (th[t].pc = "done")

\* ClearRemotes found no peer and is about to release the exclusive lock while
\* a reader is kept out and another thread is inside an operation
C27_Witness ==
    \E t, u \in Threads :
        /\ th[t].fn = "ClearRemotes" /\ th[t].pc = "unlock" /\ th[t].h = 0
        /\ rw.writer = t
        /\ u \in rw.blocked

====
